---- MODULE Spec2Model ----
(***************************************************************************)
(* A model of cognihub_pyeffectref: the reactive container Ref (ref.py)   *)
(* and the reactive effect EffectWrapper (effect.py).                      *)
(*                                                                         *)
(* Spec        one thread of control in which no event loop is running.   *)
(* SpecLoop    the program is the main task of a running asyncio event    *)
(*             loop.  Code between two awaits is atomic with respect to    *)
(*             the other tasks of the loop, so every operation of the main *)
(*             task and every callback of the loop is one action.          *)
(* SpecThreads several threads that interleave at the level of single      *)
(*             attribute reads and writes of one shared Ref.               *)
(***************************************************************************)
EXTENDS Integers, Sequences, FiniteSets, TLC

\* ---------------------------------------------------------------- bounds
MaxVal == 1          \* Ref values are drawn from 0..MaxVal
MaxReady == 1        \* callbacks and tasks waiting in the event loop
MaxSubs == 3         \* subscribers a Ref gets through subscribe
NumThreads == 2      \* worker threads of SpecThreads
Steps == 2           \* read-then-write steps of each worker
MaxHeap == 4         \* containers the records of SpecRecord create
MaxRelays == 2       \* ReadOnlyRefs built on one container

\* ------------------------------------------------------------ the objects
None == "None"
Refs == {"show_age", "age"}
Values == 0..MaxVal
SyncCallbacks == {"on_change", "failing"}
AsyncCallbacks == {"async_subscriber"}
SyncEffects == {"sync_effect"}
AsyncEffects == {"async_effect"}
Effects == SyncEffects \cup AsyncEffects
Subs == SyncCallbacks \cup AsyncCallbacks \cup Effects
Threads == 1..NumThreads
Relay == "relay"     \* the function a ReadOnlyRef subscribes to its base
Counter == "show_age"

VARIABLES
    value,          \* Ref._value of every Ref
    subscribers,    \* Ref._subscribers of every Ref
    is_active,      \* EffectWrapper._is_active of every effect
    signature,      \* parameters of the functions the effects wrap
    loop,           \* an asyncio event loop is running in the thread
    ctl,            \* who runs: the main task or the event loop
    thread_effect,  \* local._thread_local_current_effect.value
    task_effect,    \* local._async_local_current_effect in the main task
    ready,          \* the event loop's queue of scheduled callbacks and tasks
    last,           \* what the most recent operation did
    reads,          \* the Refs each effect read in its most recent run
    stopped,        \* the effects stop() has been called on
    t_pc,           \* SpecThreads: position of every worker
    t_loop,         \* SpecThreads: the worker runs inside an event loop
    t_current,      \* SpecThreads: the worker's local variable current
    t_old,          \* SpecThreads: the setter's local variable old_value
    t_left,         \* SpecThreads: iterations the worker has left
    t_done,         \* SpecThreads: increments the worker has completed
    w_pc,           \* SpecWriters: position of every writer
    w_new,          \* SpecWriters: the setter's parameter new_value
    w_old,          \* SpecWriters: the setter's local variable old_value
    w_left,         \* SpecWriters: writes the writer has left
    notified,       \* SpecWriters: the payloads on_change has received
    proxy_subscribers,  \* ReadOnlyRef._subscribers, in its iteration order
    ready_for,      \* for every entry of ready: the synchronous subscribers of the
                    \* proxy that the write which scheduled it has called
    rd_value,       \* SpecRecord: Ref._value of every container of the records
    rd_subs,        \* SpecRecord: Ref._subscribers of every container
    rd_table,       \* SpecRecord: ReactiveDict._data_refs of every record
    rd_given,       \* SpecRecord: the mapping given, with the leaves assigned since
    rd_out,         \* SpecRecord: what the most recent operation returned
    rd_raw,         \* SpecRecord: the container get_raw_ref returned
    rd_moved,       \* SpecRecord: key b was reassigned since get_raw_ref
    view_own,       \* SpecRecord: the attributes set on the ReadOnlyView, as (name, value)
    allowed_actions,    \* SpecActions: ReadOnlyView._allowed_actions of every view
    executor,       \* SpecActions: the view whose table the held ActionExecutor refers to
    exec_seen,      \* SpecActions: that table as it was when the executor was obtained
    act,            \* SpecActions: what the most recent operation did
    schema_cache,   \* SpecSchema: the cache the program hands to infer_schema_from_data
    descriptors,    \* SpecSchema: the number of descriptors created so far
    inferred,       \* SpecSchema: the calls made so far, with what they returned
    n_mode,         \* SpecNested: per thread, what asyncio.current_task finds in it
    n_slot,         \* SpecNested: per thread, local._thread_local_current_effect.value
    n_ctx,          \* SpecNested: per thread, local._async_local_current_effect
    n_stack,        \* SpecNested: per thread, the effect invocations that have not ended
    n_exc,          \* SpecNested: per thread, the exception that is propagating
    n_subs,         \* SpecNested: the subscriber set of every Ref
    n_last,         \* SpecNested: what the most recent step did
    l_mode,         \* SpecLock: what asyncio.current_task finds in the threads
    l_value,        \* SpecLock: the value of every Ref
    l_subs,         \* SpecLock: the subscriber set of every Ref
    l_lock,         \* SpecLock: the thread that holds _subscribers_lock of every Ref
    l_stack,        \* SpecLock: per thread, the calls that have not returned
    l_done,         \* SpecLock: per thread, whether its write has been made
    r_value,        \* SpecRound: the value of every Ref
    r_subs,         \* SpecRound: the subscriber set of every Ref
    r_stack,        \* SpecRound: the notification rounds that have not returned
    r_log,          \* SpecRound: every round started so far, with the calls it made
    relays          \* SpecView: per container, the relays of the ReadOnlyRefs built on it

refVars == <<value, subscribers>>
mainVars == <<is_active, signature, loop, ctl, thread_effect, task_effect, ready, last, reads, stopped>>
threadVars == <<t_pc, t_loop, t_current, t_old, t_left, t_done>>
writerVars == <<w_pc, w_new, w_old, w_left, notified>>
proxyVars == <<proxy_subscribers, ready_for>>
recordVars == <<rd_value, rd_subs, rd_table, rd_given, rd_out, rd_raw, rd_moved, view_own>>
actionVars == <<allowed_actions, executor, exec_seen, act>>
schemaVars == <<schema_cache, descriptors, inferred>>
nestedVars == <<n_mode, n_slot, n_ctx, n_stack, n_exc, n_subs, n_last>>
lockVars == <<l_mode, l_value, l_subs, l_lock, l_stack, l_done>>
roundVars == <<r_value, r_subs, r_stack, r_log>>
viewVars == <<relays>>
otherVars == <<actionVars, schemaVars, nestedVars, lockVars, roundVars, viewVars>>
notActionVars == <<refVars, mainVars, threadVars, writerVars, proxyVars, recordVars, schemaVars,
                   nestedVars, lockVars, roundVars, viewVars>>
notSchemaVars == <<refVars, mainVars, threadVars, writerVars, proxyVars, recordVars, actionVars,
                   nestedVars, lockVars, roundVars, viewVars>>
notNestedVars == <<refVars, mainVars, threadVars, writerVars, proxyVars, recordVars, actionVars,
                   schemaVars, lockVars, roundVars, viewVars>>
notLockVars == <<refVars, mainVars, threadVars, writerVars, proxyVars, recordVars, actionVars,
                 schemaVars, nestedVars, roundVars, viewVars>>
notRoundVars == <<refVars, mainVars, threadVars, writerVars, proxyVars, recordVars, actionVars,
                  schemaVars, nestedVars, lockVars, viewVars>>
notViewVars == <<actionVars, schemaVars, nestedVars, lockVars, roundVars>>
extVars == <<writerVars, proxyVars, recordVars, otherVars>>
vars == <<value, subscribers, is_active, signature, loop, ctl, thread_effect,
          task_effect, ready, last, reads, stopped, t_pc, t_loop, t_current, t_old, t_left, t_done,
          w_pc, w_new, w_old, w_left, notified, proxy_subscribers, ready_for,
          rd_value, rd_subs, rd_table, rd_given, rd_out, rd_raw, rd_moved, view_own,
          allowed_actions, executor, exec_seen, act, schema_cache, descriptors, inferred,
          n_mode, n_slot, n_ctx, n_stack, n_exc, n_subs, n_last,
          l_mode, l_value, l_subs, l_lock, l_stack, l_done,
          r_value, r_subs, r_stack, r_log, relays>>

\* ------------------------------------------------------------- helpers
\* list(self._subscribers): the elements of a set, in any order.
RECURSIVE Perms(_)
Perms(S) == IF S = {} THEN {<<>>}
            ELSE UNION {{Append(p, x) : p \in Perms(S \ {x})} : x \in S}
NoCalls == [s \in Subs |-> <<>>]
NoRuns == [s \in Subs |-> 0]
NoReads == [e \in Effects |-> {}]
Last(seq) == seq[Len(seq)]

\* What one operation does to the program besides the Ref values: the
\* subscriber sets, the calls each subscriber received, the number of times
\* each subscriber's function body was entered, the Refs each body read, the
\* subscribers whose call raised an exception, the callbacks it handed to
\* the event loop.
Acc(subs) ==
    [subs |-> subs, calls |-> NoCalls, ran |-> NoRuns, read |-> NoReads, failed |-> {},
     handles |-> <<>>]

\* asyncio.iscoroutinefunction(callback): true of an `async def` function,
\* false of every other callable, an EffectWrapper instance included.
IsCoroutineFunction(s) == s \in AsyncCallbacks

\* The wrapped function accepts a call with n positional arguments.
Accepts(e, n) == signature = "varargs" \/ n = 0

\* ------------------------------------------------------------ Ref.value
\* asyncio.current_task(None) raises RuntimeError when no event loop runs in
\* the thread (mode "none"), is a task inside a task (mode "task") and None
\* inside a plain callback of the loop (mode "handle").
CurrentEffect(mode, tslot, aslot) == IF mode = "task" THEN aslot ELSE tslot

Getter(subs, r, mode, tslot, aslot) ==
    IF mode = "none" THEN [subs |-> subs, exc |-> "RuntimeError"]
    ELSE LET current_effect == CurrentEffect(mode, tslot, aslot)
         IN [subs |-> IF current_effect # None
                      THEN [subs EXCEPT ![r] = @ \cup {current_effect}]
                      ELSE subs,
             exc |-> "none"]

\* The function every effect wraps: it reads show_age, and age when show_age
\* is true.
Body(e, acc, val, mode, tslot, aslot) ==
    LET g == Getter(acc.subs, "show_age", mode, tslot, aslot)
        a1 == [acc EXCEPT !.subs = g.subs, !.ran[e] = @ + 1, !.read[e] = {"show_age"}]
    IN IF g.exc # "none" \/ val["show_age"] = 0
       THEN [acc |-> a1, exc |-> g.exc]
       ELSE LET h == Getter(a1.subs, "age", mode, tslot, aslot)
            IN [acc |-> [a1 EXCEPT !.subs = h.subs, !.read[e] = {"show_age", "age"}],
                exc |-> h.exc]

\* ------------------------------------------------------- EffectWrapper
\* Mutant: the wrapped function is called without the arguments.
RunSyncEffect_DropsArgs(e, args, acc, val, mode, tslot, aslot) ==
    LET old_effect == tslot
        b == Body(e, acc, val, mode, e, aslot)
    IN [acc |-> b.acc, ret |-> None, exc |-> b.exc, tslot |-> old_effect]

RunSyncEffect(e, args, acc, val, mode, tslot, aslot) ==
    LET old_effect == tslot
    IN IF ~Accepts(e, Len(args))
       THEN [acc |-> acc, ret |-> None, exc |-> "TypeError", tslot |-> old_effect]
       ELSE LET b == Body(e, acc, val, mode, e, aslot)
            IN [acc |-> b.acc, ret |-> None, exc |-> b.exc, tslot |-> old_effect]

\* First step of the coroutine EffectWrapper._run_async_effect inside a task.
RunAsyncEffect(e, args, acc, val) ==
    IF ~Accepts(e, Len(args))
    THEN [acc |-> acc, exc |-> "TypeError"]
    ELSE Body(e, acc, val, "task", None, e)

\* Mutant: __call__ without the test of _is_active.
EffectCall_NoActiveCheck(e, args, acc, val, mode, tslot, aslot) ==
    IF e \in AsyncEffects
    THEN [acc |-> acc, ret |-> "coroutine", exc |-> "none", tslot |-> tslot]
    ELSE RunSyncEffect(e, args, acc, val, mode, tslot, aslot)

EffectCall(e, args, acc, val, mode, tslot, aslot) ==
    IF ~is_active[e]
    THEN [acc |-> acc, ret |-> None, exc |-> "none", tslot |-> tslot]
    ELSE IF e \in AsyncEffects
    THEN [acc |-> acc, ret |-> "coroutine", exc |-> "none", tslot |-> tslot]
    ELSE RunSyncEffect(e, args, acc, val, mode, tslot, aslot)

\* The callbacks the event loop is given.  The lambda handed to
\* call_soon_threadsafe by Ref._notify_subscribers reads the loop variable
\* `callback` when it runs, after the for loop has ended: it calls the last
\* subscriber of the snapshot.
Handle(target, new, old) == [kind |-> "handle", target |-> target, new |-> new, old |-> old]
Task(target, new, old) == [kind |-> "task", target |-> target, new |-> new, old |-> old]

\* Calling a plain function subscriber: on_change records the pair, failing
\* raises, an `async def` function returns a coroutine object.
CallPlain(s, args, acc, tslot) ==
    LET called == [acc EXCEPT !.calls[s] = Append(@, args)]
    IN IF s = "on_change"
       THEN [acc |-> [called EXCEPT !.ran[s] = @ + 1], ret |-> None, exc |-> "none", tslot |-> tslot]
       ELSE IF s = "failing"
       THEN [acc |-> [called EXCEPT !.ran[s] = @ + 1], ret |-> None, exc |-> "Exception", tslot |-> tslot]
       ELSE [acc |-> called, ret |-> "coroutine", exc |-> "none", tslot |-> tslot]

\* ReadOnlyRef: notification of the proxy's own subscribers, which are plain
\* functions, with the pair the base delivered.  An asynchronous subscriber
\* is scheduled on the running loop, a synchronous one is called inline and
\* its exception is caught.
RECURSIVE ProxyNotify(_, _, _, _, _)
ProxyNotify(i, acc, new, old, mode) ==
    IF i > Len(proxy_subscribers) THEN acc
    ELSE LET callback == proxy_subscribers[i]
             next == IF IsCoroutineFunction(callback)
                     THEN IF mode # "none"
                          THEN [acc EXCEPT !.handles = Append(@, Handle(callback, new, old))]
                          ELSE acc
                     ELSE LET c == CallPlain(callback, <<new, old>>, acc, None)
                          IN IF c.exc # "none"
                             THEN [c.acc EXCEPT !.failed = @ \cup {callback}]
                             ELSE c.acc
         IN ProxyNotify(i + 1, next, new, old, mode)

\* Calling subscriber s with args.  The relay of a ReadOnlyRef forwards the
\* pair to the subscribers of the proxy.
Call(s, args, acc, val, mode, tslot, aslot) ==
    IF s = Relay
    THEN [acc |-> ProxyNotify(1, acc, args[1], args[2], mode),
          ret |-> None, exc |-> "none", tslot |-> tslot]
    ELSE IF s \in Effects
    THEN EffectCall(s, args, [acc EXCEPT !.calls[s] = Append(@, args)],
                    val, mode, tslot, aslot)
    ELSE CallPlain(s, args, acc, tslot)

\* ------------------------------------------------ Ref._notify_subscribers

\* Mutant: an asynchronous callback is run to completion inside the setter.
NotifyOne_Inline(callback, acc, new, old, val, mode, tslot, aslot) ==
    LET c == Call(callback, <<new, old>>, acc, val, mode, tslot, aslot)
    IN [acc |-> IF IsCoroutineFunction(callback) THEN [c.acc EXCEPT !.ran[callback] = @ + 1]
                ELSE IF c.exc # "none" THEN [c.acc EXCEPT !.failed = @ \cup {callback}]
                ELSE c.acc,
        scheduled |-> FALSE, raised |-> "none"]

\* Mutant: the call of a synchronous callback without try/except.
NotifyOne_NoCatch(callback, acc, new, old, val, mode, tslot, aslot) ==
    IF IsCoroutineFunction(callback)
    THEN [acc |-> acc, scheduled |-> mode # "none", raised |-> "none"]
    ELSE LET c == Call(callback, <<new, old>>, acc, val, mode, tslot, aslot)
         IN [acc |-> IF c.exc # "none" THEN [c.acc EXCEPT !.failed = @ \cup {callback}] ELSE c.acc,
             scheduled |-> FALSE, raised |-> c.exc]

\* Mutant: every callback is handed to the event loop, none is called inline.
NotifyOne_Deferred(callback, acc, new, old, val, mode, tslot, aslot) ==
    [acc |-> acc, scheduled |-> mode # "none", raised |-> "none"]

\* Mutant: the RuntimeError of asyncio.get_running_loop() leaves the setter.
NotifyOne_LoopErrorRaised(callback, acc, new, old, val, mode, tslot, aslot) ==
    IF IsCoroutineFunction(callback)
    THEN [acc |-> acc, scheduled |-> mode # "none",
          raised |-> IF mode = "none" THEN "RuntimeError" ELSE "none"]
    ELSE LET c == Call(callback, <<new, old>>, acc, val, mode, tslot, aslot)
         IN [acc |-> IF c.exc # "none" THEN [c.acc EXCEPT !.failed = @ \cup {callback}] ELSE c.acc,
             scheduled |-> FALSE, raised |-> "none"]

\* One iteration of the for loop: the outcome of notifying callback.
NotifyOne(callback, acc, new, old, val, mode, tslot, aslot) ==
    IF IsCoroutineFunction(callback)
    THEN [acc |-> acc, scheduled |-> mode # "none", raised |-> "none"]
    ELSE LET c == Call(callback, <<new, old>>, acc, val, mode, tslot, aslot)
         IN [acc |-> IF c.exc # "none" THEN [c.acc EXCEPT !.failed = @ \cup {callback}] ELSE c.acc,
             scheduled |-> FALSE, raised |-> "none"]

RECURSIVE NotifyFrom(_, _, _, _, _, _, _, _, _)
NotifyFrom(i, order, acc, new, old, val, mode, tslot, aslot) ==
    IF i > Len(order) THEN [acc |-> acc, handles |-> acc.handles, raised |-> "none"]
    ELSE LET one == NotifyOne(order[i], acc, new, old, val, mode, tslot, aslot)
         IN IF one.raised # "none"
            THEN [acc |-> one.acc, handles |-> one.acc.handles, raised |-> one.raised]
            ELSE NotifyFrom(i + 1, order,
                            IF one.scheduled
                            THEN [one.acc EXCEPT
                                    !.handles = Append(@, Handle(Last(order), new, old))]
                            ELSE one.acc,
                            new, old, val, mode, tslot, aslot)

\* Mutant: the callbacks get (old_value, new_value).
NotifySubscribers_Swapped(order, subs, old_value, new_value, val, mode, tslot, aslot) ==
    NotifyFrom(1, order, Acc(subs), old_value, new_value, val, mode, tslot, aslot)

NotifySubscribers(order, subs, old_value, new_value, val, mode, tslot, aslot) ==
    NotifyFrom(1, order, Acc(subs), new_value, old_value, val, mode, tslot, aslot)

\* ----------------------------------------------------------- the record
Did(op, ref, target, new, old, changed, snapshot, acc, raised) ==
    [op |-> op, ref |-> ref, target |-> target, new |-> new, old |-> old,
     changed |-> changed, snapshot |-> snapshot, calls |-> acc.calls, ran |-> acc.ran,
     read |-> acc.read, failed |-> acc.failed, raised |-> raised]

Nothing == Acc(subscribers)

\* The Refs each effect read in its most recent run.
Track == [e \in Effects |-> IF last'.ran[e] > 0 THEN last'.read[e] ELSE reads[e]]
MainMode == IF loop THEN "task" ELSE "none"

Range(seq) == {seq[i] : i \in 1..Len(seq)}
Repeat(n, x) == [i \in 1..n |-> x]

\* The synchronous subscribers of the proxy, which a write to r calls through
\* the relay.
CalledForProxy(r) ==
    IF Relay \in subscribers[r]
    THEN {s \in Range(proxy_subscribers) : ~IsCoroutineFunction(s)}
    ELSE {}

\* The callbacks a write to r hands to the event loop.
AsyncOf(seq) == {i \in 1..Len(seq) : IsCoroutineFunction(seq[i])}
Pending(r) ==
    Cardinality(subscribers[r] \cap AsyncCallbacks)
      + (IF Relay \in subscribers[r] THEN Cardinality(AsyncOf(proxy_subscribers)) ELSE 0)

\* ------------------------------------------------------------- actions
\* ref.value = v
Write(r, v) ==
    /\ ctl = "main"
    /\ Len(ready) + Pending(r) <= MaxReady
    /\ IF value[r] # v
       THEN \E order \in Perms(subscribers[r]) :
              LET old_value == value[r]
                  val == [value EXCEPT ![r] = v]
                  n == NotifySubscribers(order, subscribers, old_value, v, val,
                                         MainMode, thread_effect, task_effect)
              IN /\ value' = val
                 /\ subscribers' = n.acc.subs
                 /\ ready' = ready \o n.handles
                 /\ ready_for' = ready_for \o Repeat(Len(n.handles), CalledForProxy(r))
                 /\ last' = Did("write", r, None, v, old_value, TRUE, subscribers[r],
                                n.acc, n.raised)
       ELSE /\ UNCHANGED <<value, subscribers, ready, ready_for>>
            /\ last' = Did("write", r, None, v, value[r], FALSE, {}, Nothing, "none")
    /\ UNCHANGED <<is_active, signature, loop, ctl, thread_effect, task_effect>>
    /\ reads' = Track
    /\ UNCHANGED <<stopped, threadVars, otherVars, writerVars, proxy_subscribers, recordVars>>

\* ref.subscribe(s): every s of Subs is callable.  The program subscribes
\* to the Ref Counter only.
Subscribe(r, s) ==
    /\ ctl = "main"
    /\ r = Counter
    /\ Cardinality(subscribers[r] \cup {s}) <= MaxSubs
    /\ subscribers' = [subscribers EXCEPT ![r] = @ \cup {s}]
    /\ last' = Did("subscribe", r, s, 0, 0, FALSE, subscribers[r], Nothing, "none")
    /\ UNCHANGED <<value, is_active, signature, loop, ctl, thread_effect, task_effect, ready>>
    /\ reads' = Track
    /\ UNCHANGED <<stopped, threadVars, extVars>>

\* Mutant: unsubscribe that leaves the callback in the set.
Unsubscribe_Noop(r, s) ==
    /\ ctl = "main"
    /\ last' = Did("unsubscribe", r, s, 0, 0, FALSE, subscribers[r], Nothing, "none")
    /\ UNCHANGED <<value, subscribers, is_active, signature, loop, ctl, thread_effect,
                   task_effect, ready>>
    /\ reads' = Track
    /\ UNCHANGED <<stopped, threadVars, extVars>>

\* ref.unsubscribe(s): set.discard, which accepts an element that is absent.
Unsubscribe(r, s) ==
    /\ ctl = "main"
    /\ subscribers' = [subscribers EXCEPT ![r] = @ \ {s}]
    /\ last' = Did("unsubscribe", r, s, 0, 0, FALSE, subscribers[r], Nothing, "none")
    /\ UNCHANGED <<value, is_active, signature, loop, ctl, thread_effect, task_effect, ready>>
    /\ reads' = Track
    /\ UNCHANGED <<stopped, threadVars, extVars>>

\* e(): manual invocation of a synchronous effect.
Invoke(e) ==
    /\ ctl = "main"
    /\ e \in SyncEffects
    /\ LET c == Call(e, <<>>, Nothing, value, MainMode, thread_effect, task_effect)
       IN /\ subscribers' = c.acc.subs
          /\ thread_effect' = c.tslot
          /\ last' = Did("invoke", None, e, 0, 0, FALSE, {}, c.acc, c.exc)
    /\ UNCHANGED <<value, is_active, signature, loop, ctl, task_effect, ready>>
    /\ reads' = Track
    /\ UNCHANGED <<stopped, threadVars, extVars>>

\* await e(): manual invocation of an asynchronous effect from the main task.
\* The body runs up to its first await with the context variable set, and
\* the main task stays suspended until Resume.
AwaitEffect(e) ==
    /\ ctl = "main"
    /\ loop
    /\ e \in AsyncEffects
    /\ LET c == Call(e, <<>>, Nothing, value, MainMode, thread_effect, task_effect)
       IN IF c.ret # "coroutine"
          THEN /\ last' = Did("await", None, e, 0, 0, FALSE, {}, c.acc, "TypeError")
               /\ UNCHANGED <<subscribers, ctl, task_effect>>
          ELSE LET b == RunAsyncEffect(e, <<>>, c.acc, value)
               IN /\ subscribers' = b.acc.subs
                  /\ last' = Did("await", None, e, 0, 0, FALSE, {}, b.acc, b.exc)
                  /\ ctl' = "loop"
                  /\ task_effect' = e
    /\ UNCHANGED <<value, is_active, signature, loop, thread_effect, ready>>
    /\ reads' = Track
    /\ UNCHANGED <<stopped, threadVars, extVars>>

\* Mutant: stop() also removes the effect from every subscriber set.
Stop_Unsubscribes(e) ==
    /\ ctl = "main"
    /\ is_active' = [is_active EXCEPT ![e] = FALSE]
    /\ stopped' = stopped \cup {e}
    /\ subscribers' = [r \in Refs |-> subscribers[r] \ {e}]
    /\ last' = Did("stop", None, e, 0, 0, FALSE, {}, Nothing, "none")
    /\ reads' = Track
    /\ UNCHANGED <<value, signature, loop, ctl, thread_effect, task_effect, ready>>
    /\ UNCHANGED <<threadVars, extVars>>

\* e.stop()
Stop(e) ==
    /\ ctl = "main"
    /\ is_active' = [is_active EXCEPT ![e] = FALSE]
    /\ stopped' = stopped \cup {e}
    /\ last' = Did("stop", None, e, 0, 0, FALSE, {}, Nothing, "none")
    /\ reads' = Track
    /\ UNCHANGED <<value, subscribers, signature, loop, ctl, thread_effect, task_effect, ready>>
    /\ UNCHANGED <<threadVars, extVars>>

\* await asyncio.sleep(..) in the main task.
Sleep ==
    /\ ctl = "main"
    /\ loop
    /\ ctl' = "loop"
    /\ last' = Did("sleep", None, None, 0, 0, FALSE, {}, Nothing, "none")
    /\ UNCHANGED <<value, subscribers, is_active, signature, loop, thread_effect, task_effect, ready>>
    /\ reads' = Track
    /\ UNCHANGED <<stopped, threadVars, extVars>>

\* The main task is resumed; an awaited effect resets the context variable.
Resume ==
    /\ ctl = "loop"
    /\ ctl' = "main"
    /\ task_effect' = None
    /\ last' = Did("resume", None, None, 0, 0, FALSE, {}, Nothing, "none")
    /\ UNCHANGED <<value, subscribers, is_active, signature, loop, thread_effect, ready>>
    /\ reads' = Track
    /\ UNCHANGED <<stopped, threadVars, extVars>>

\* The loop runs the scheduled lambda: asyncio.create_task(callback(new, old)).
RunHandle ==
    /\ ctl = "loop"
    /\ ready # <<>>
    /\ Head(ready).kind = "handle"
    /\ LET h == Head(ready)
           c == Call(h.target, <<h.new, h.old>>, Nothing, value, "handle", thread_effect, None)
       IN /\ subscribers' = c.acc.subs
          /\ ready' = IF c.exc = "none" /\ c.ret = "coroutine"
                      THEN Append(Tail(ready) \o c.acc.handles, Task(h.target, h.new, h.old))
                      ELSE Tail(ready) \o c.acc.handles
          /\ ready_for' = Tail(ready_for) \o Repeat(Len(ready') - Len(ready) + 1, Head(ready_for))
          /\ last' = Did("handle", None, h.target, h.new, h.old, FALSE, {}, c.acc,
                         IF c.exc # "none" THEN c.exc
                         ELSE IF c.ret # "coroutine" THEN "TypeError" ELSE "none")
    /\ UNCHANGED <<value, is_active, signature, loop, ctl, thread_effect, task_effect>>
    /\ reads' = Track
    /\ UNCHANGED <<stopped, threadVars, otherVars, writerVars, proxy_subscribers, recordVars>>

\* The loop runs the first step of a task.
RunTask ==
    /\ ctl = "loop"
    /\ ready # <<>>
    /\ Head(ready).kind = "task"
    /\ LET t == Head(ready)
           b == IF t.target \in AsyncEffects
                THEN RunAsyncEffect(t.target, <<t.new, t.old>>, Nothing, value)
                ELSE [acc |-> [Nothing EXCEPT !.ran[t.target] = @ + 1], exc |-> "none"]
       IN /\ subscribers' = b.acc.subs
          /\ ready' = Tail(ready)
          /\ ready_for' = Tail(ready_for)
          /\ last' = Did("task", None, t.target, t.new, t.old, FALSE, {}, b.acc, b.exc)
    /\ UNCHANGED <<value, is_active, signature, loop, ctl, thread_effect, task_effect>>
    /\ reads' = Track
    /\ UNCHANGED <<stopped, threadVars, otherVars, writerVars, proxy_subscribers, recordVars>>

\* ------------------------------------------------------- ReadOnlyRef
\* readonly_ref = ReadOnlyRef(counter): the proxy exists when its relay is
\* subscribed to the base.
Without(seq, s) == SelectSeq(seq, LAMBDA x : x # s)

\* readonly_ref.subscribe(s): adds s to the proxy's own set.
ProxySubscribe(s) ==
    /\ ctl = "main"
    /\ Relay \in subscribers[Counter]
    /\ Cardinality(Range(proxy_subscribers) \cup {s}) <= MaxSubs
    /\ IF s \in Range(proxy_subscribers)
       THEN UNCHANGED proxy_subscribers
       ELSE \E order \in Perms(Range(proxy_subscribers) \cup {s}) : proxy_subscribers' = order
    /\ last' = Did("proxy_subscribe", Counter, s, 0, 0, FALSE, subscribers[Counter],
                   Nothing, "none")
    /\ UNCHANGED <<value, subscribers, is_active, signature, loop, ctl, thread_effect,
                   task_effect, ready>>
    /\ reads' = Track
    /\ UNCHANGED <<stopped, threadVars, otherVars, writerVars, ready_for, recordVars>>

\* readonly_ref.unsubscribe(s)
ProxyUnsubscribe(s) ==
    /\ ctl = "main"
    /\ Relay \in subscribers[Counter]
    /\ proxy_subscribers' = Without(proxy_subscribers, s)
    /\ last' = Did("proxy_unsubscribe", Counter, s, 0, 0, FALSE, subscribers[Counter],
                   Nothing, "none")
    /\ UNCHANGED <<value, subscribers, is_active, signature, loop, ctl, thread_effect,
                   task_effect, ready>>
    /\ reads' = Track
    /\ UNCHANGED <<stopped, threadVars, otherVars, writerVars, ready_for, recordVars>>

\* readonly_ref.value: the getter of the base.  last.new is the value read.
ProxyRead ==
    /\ ctl = "main"
    /\ Relay \in subscribers[Counter]
    /\ LET g == Getter(subscribers, Counter, MainMode, thread_effect, task_effect)
       IN /\ subscribers' = g.subs
          /\ last' = Did("proxy_read", Counter, None, value[Counter], value[Counter], FALSE,
                         {}, Nothing, g.exc)
    /\ UNCHANGED <<value, is_active, signature, loop, ctl, thread_effect, task_effect, ready>>
    /\ reads' = Track
    /\ UNCHANGED <<stopped, threadVars, extVars>>

\* readonly_ref.value = v: the property has no setter.
ProxyAssign(v) ==
    /\ ctl = "main"
    /\ Relay \in subscribers[Counter]
    /\ last' = Did("proxy_assign", Counter, None, v, value[Counter], FALSE, {}, Nothing,
                   "AttributeError")
    /\ UNCHANGED <<value, subscribers, is_active, signature, loop, ctl, thread_effect,
                   task_effect, ready>>
    /\ reads' = Track
    /\ UNCHANGED <<stopped, threadVars, extVars>>

\* ------------------------------------------------------- ReactiveDict
\* A record is a table from keys to containers (Refs).  A container holds a
\* scalar or a nested record.  Containers and records are numbered in the
\* order of their creation; the root record is record 1.  The program works
\* on the record built from {"a": x, "b": {"c": y}}.
Leaf(v) == [kind |-> "leaf", v |-> v]          \* a scalar
Nested(n) == [kind |-> "record", v |-> n]      \* the ReactiveDict instance n
Plain(m) == [kind |-> "map", v |-> m]          \* a plain mapping
RefResult(c) == [kind |-> "ref", v |-> c]      \* the container c itself
NoResult == [kind |-> "none", v |-> 0]
Root == 1
NestedKeys == {"c", "d"}
KeyOrder == <<"a", "b", "c", "d">>
KeysOf(m) == SelectSeq(KeyOrder, LAMBDA k : k \in DOMAIN m)
Index(seq, x) == CHOOSE i \in 1..Len(seq) : seq[i] = x
With(f, k, x) == [y \in DOMAIN f \cup {k} |-> IF y = k THEN x ELSE f[y]]

\* The plain mappings without nested mappings the program assigns to key b.
FlatMappings ==
    UNION {[K -> {Leaf(v) : v \in Values}] : K \in SUBSET NestedKeys \ {{}}}

\* ReactiveDict(m) for such a mapping: one new container per key, created
\* after the containers 1..base.
BuildTable(m, base) == [k \in DOMAIN m |-> base + Index(KeysOf(m), k)]
BuildValues(m) == [i \in 1..Len(KeysOf(m)) |-> m[KeysOf(m)[i]]]

\* The record held by key b of the root, and the container of a path.
NodeB == rd_value[rd_table[Root]["b"]].v
HasPath(path) == path \in {"a", "b"} \/ "c" \in DOMAIN rd_table[NodeB]
LastKey(path) == IF path = "b.c" THEN "c" ELSE path
ContainerAt(path) ==
    IF path \in {"a", "b"} THEN rd_table[Root][path] ELSE rd_table[NodeB][LastKey(path)]

\* Mutant: a shallow to_dict(), which returns the nested records themselves.
ToDict_Shallow(n) ==
    [k \in DOMAIN rd_table[n] |-> rd_value[rd_table[n][k]]]

\* to_dict(): every nested record becomes a plain mapping, every scalar is
\* kept.
RECURSIVE ToDict(_)
ToDict(n) ==
    [k \in DOMAIN rd_table[n] |->
        LET held == rd_value[rd_table[n][k]]
        IN IF held.kind = "record" THEN Plain(ToDict(held.v)) ELSE held]

\* container.value = new on the heap val with the subscriber sets subs.
SetValue(c, new, val, subs, op, path) ==
    IF val[c] # new
    THEN \E order \in Perms(subs[c]) :
           LET old_value == val[c]
               n == NotifySubscribers(order, subs, old_value, new, value,
                                      MainMode, thread_effect, task_effect)
           IN /\ rd_value' = [val EXCEPT ![c] = new]
              /\ rd_subs' = n.acc.subs
              /\ last' = Did(op, c, path, new, old_value, TRUE, subs[c], n.acc, n.raised)
    ELSE /\ rd_value' = val
         /\ rd_subs' = subs
         /\ last' = Did(op, c, path, new, val[c], FALSE, {}, Nothing, "none")

\* The mapping given, after the statement `record.<path> = x`.
Given(path, x) ==
    IF path \in {"a", "b"} THEN [rd_given EXCEPT ![path] = x]
    ELSE [rd_given EXCEPT !["b"] = Plain(With(@.v, LastKey(path), x))]

\* record.a = v, record.b.c = v.  The statement on the nested key reads
\* record.b through the getter of its container first; a key the record
\* does not have gets a new container.
RdSetAttr(path, v) ==
    /\ ctl = "main"
    /\ path \in {"a", "b.c"}
    /\ LET g == IF path = "a" THEN [subs |-> rd_subs, exc |-> "none"]
                ELSE Getter(rd_subs, rd_table[Root]["b"], MainMode, thread_effect, task_effect)
       IN IF g.exc # "none"
          THEN /\ last' = Did("rd_set", IF HasPath(path) THEN ContainerAt(path) ELSE 0, path,
                              Leaf(v),
                              IF HasPath(path) THEN rd_value[ContainerAt(path)] ELSE Leaf(v),
                              FALSE, {}, Nothing, g.exc)
               /\ UNCHANGED <<rd_value, rd_subs, rd_table>>
          ELSE IF HasPath(path)
          THEN /\ SetValue(ContainerAt(path), Leaf(v), rd_value, g.subs, "rd_set", path)
               /\ UNCHANGED rd_table
          ELSE /\ Len(rd_value) < MaxHeap
               /\ rd_value' = Append(rd_value, Leaf(v))
               /\ rd_subs' = Append(g.subs, {})
               /\ rd_table' = [rd_table EXCEPT ![NodeB] = With(@, LastKey(path), Len(rd_value) + 1)]
               /\ last' = Did("rd_set", 0, path, Leaf(v), Leaf(v), FALSE, {}, Nothing, "none")
    /\ rd_given' = Given(path, Leaf(v))
    /\ rd_out' = NoResult
    /\ UNCHANGED <<rd_raw, rd_moved, view_own>>
    /\ UNCHANGED <<value, subscribers, is_active, signature, loop, ctl, thread_effect,
                   task_effect, ready>>
    /\ reads' = Track
    /\ UNCHANGED <<stopped, threadVars, otherVars, writerVars, proxyVars>>

\* record.b = m for a plain mapping m: a new record is built from m and
\* stored in the container of b.  Two records are equal when they are the
\* same record.
RdSetMapping(m) ==
    /\ ctl = "main"
    /\ Len(rd_value) + Len(KeysOf(m)) <= MaxHeap
    /\ rd_table' = Append(rd_table, BuildTable(m, Len(rd_value)))
    /\ SetValue(rd_table[Root]["b"], Nested(Len(rd_table) + 1),
                rd_value \o BuildValues(m), rd_subs \o Repeat(Len(KeysOf(m)), {}),
                "rd_set_mapping", "b")
    /\ rd_given' = Given("b", Plain(m))
    /\ rd_moved' = TRUE
    /\ rd_out' = NoResult
    /\ UNCHANGED <<rd_raw, view_own>>
    /\ UNCHANGED <<value, subscribers, is_active, signature, loop, ctl, thread_effect,
                   task_effect, ready>>
    /\ reads' = Track
    /\ UNCHANGED <<stopped, threadVars, otherVars, writerVars, proxyVars>>

\* record.a, record.b, record.b.c: every step of the path is a read through
\* the getter of the key's container.
RdRead(path) ==
    /\ ctl = "main"
    /\ path \in {"a", "b", "b.c"}
    /\ LET first == IF path = "a" THEN "a" ELSE "b"
           g == Getter(rd_subs, rd_table[Root][first], MainMode, thread_effect, task_effect)
           h == IF g.exc = "none" /\ path = "b.c" /\ HasPath(path)
                THEN Getter(g.subs, ContainerAt(path), MainMode, thread_effect, task_effect)
                ELSE g
           exc == IF h.exc # "none" THEN h.exc
                  ELSE IF ~HasPath(path) THEN "AttributeError" ELSE "none"
       IN /\ rd_subs' = h.subs
          /\ rd_out' = IF exc = "none" THEN rd_value[ContainerAt(path)] ELSE NoResult
          /\ last' = Did("rd_read", IF HasPath(path) THEN ContainerAt(path) ELSE 0, path,
                         NoResult, NoResult, FALSE, {}, Nothing, exc)
    /\ UNCHANGED <<rd_value, rd_table, rd_given, rd_raw, rd_moved, view_own>>
    /\ UNCHANGED <<value, subscribers, is_active, signature, loop, ctl, thread_effect,
                   task_effect, ready>>
    /\ reads' = Track
    /\ UNCHANGED <<stopped, threadVars, otherVars, writerVars, proxyVars>>

\* raw = record.get_raw_ref("b.c"): the tables are traversed and the
\* container itself is returned.
RdGetRawRef ==
    /\ ctl = "main"
    /\ IF HasPath("b.c")
       THEN /\ rd_raw' = ContainerAt("b.c")
            /\ rd_moved' = FALSE
            /\ rd_out' = RefResult(ContainerAt("b.c"))
            /\ last' = Did("rd_get_raw_ref", ContainerAt("b.c"), "b.c", NoResult, NoResult, FALSE, {},
                           Nothing, "none")
       ELSE /\ UNCHANGED <<rd_raw, rd_moved>>
            /\ rd_out' = NoResult
            /\ last' = Did("rd_get_raw_ref", 0, "b.c", NoResult, NoResult, FALSE, {}, Nothing, "KeyError")
    /\ UNCHANGED <<rd_value, rd_subs, rd_table, rd_given, view_own>>
    /\ UNCHANGED <<value, subscribers, is_active, signature, loop, ctl, thread_effect,
                   task_effect, ready>>
    /\ reads' = Track
    /\ UNCHANGED <<stopped, threadVars, otherVars, writerVars, proxyVars>>

\* raw.subscribe(s)
RdSubscribeRaw(s) ==
    /\ ctl = "main"
    /\ rd_raw # 0
    /\ rd_subs' = [rd_subs EXCEPT ![rd_raw] = @ \cup {s}]
    /\ last' = Did("rd_subscribe", rd_raw, s, NoResult, NoResult, FALSE, rd_subs[rd_raw], Nothing, "none")
    /\ rd_out' = NoResult
    /\ UNCHANGED <<rd_value, rd_table, rd_given, rd_raw, rd_moved, view_own>>
    /\ UNCHANGED <<value, subscribers, is_active, signature, loop, ctl, thread_effect,
                   task_effect, ready>>
    /\ reads' = Track
    /\ UNCHANGED <<stopped, threadVars, otherVars, writerVars, proxyVars>>

\* raw.value = v
RdRawWrite(v) ==
    /\ ctl = "main"
    /\ rd_raw # 0
    /\ SetValue(rd_raw, Leaf(v), rd_value, rd_subs, "rd_raw_write", "b.c")
    /\ rd_given' = IF HasPath("b.c") /\ ContainerAt("b.c") = rd_raw
                   THEN Given("b.c", Leaf(v))
                   ELSE rd_given
    /\ rd_out' = NoResult
    /\ UNCHANGED <<rd_table, rd_raw, rd_moved, view_own>>
    /\ UNCHANGED <<value, subscribers, is_active, signature, loop, ctl, thread_effect,
                   task_effect, ready>>
    /\ reads' = Track
    /\ UNCHANGED <<stopped, threadVars, otherVars, writerVars, proxyVars>>

\* record.to_dict()
RdToDict ==
    /\ ctl = "main"
    /\ rd_out' = Plain(ToDict(Root))
    /\ last' = Did("rd_to_dict", 0, "", NoResult, NoResult, FALSE, {}, Nothing, "none")
    /\ UNCHANGED <<rd_value, rd_subs, rd_table, rd_given, rd_raw, rd_moved, view_own>>
    /\ UNCHANGED <<value, subscribers, is_active, signature, loop, ctl, thread_effect,
                   task_effect, ready>>
    /\ reads' = Track
    /\ UNCHANGED <<stopped, threadVars, otherVars, writerVars, proxyVars>>

\* ------------------------------------------------------- ReadOnlyView
\* view = ReadOnlyView(record).  The program tries the key a of the record
\* and the private name _note.
ViewNames == {"a", "_note"}
StartsWithUnderscore(name) == name = "_note"

\* view.<name> = v
ViewSetAttr(name, v) ==
    /\ ctl = "main"
    /\ IF StartsWithUnderscore(name)
       THEN /\ view_own' = {p \in view_own : p[1] # name} \cup {<<name, v>>}
            /\ last' = Did("view_setattr", 0, name, Leaf(v), NoResult, FALSE, {}, Nothing, "none")
       ELSE /\ UNCHANGED view_own
            /\ last' = Did("view_setattr", 0, name, Leaf(v), NoResult, FALSE, {}, Nothing,
                           "AttributeError")
    /\ rd_out' = NoResult
    /\ UNCHANGED <<rd_value, rd_subs, rd_table, rd_given, rd_raw, rd_moved>>
    /\ UNCHANGED <<value, subscribers, is_active, signature, loop, ctl, thread_effect,
                   task_effect, ready>>
    /\ reads' = Track
    /\ UNCHANGED <<stopped, threadVars, otherVars, writerVars, proxyVars>>

\* Mutant: the item write makes the exception for private names too.
ViewSetItem_PrivateAllowed(key, v) ==
    /\ ctl = "main"
    /\ IF StartsWithUnderscore(key)
       THEN /\ view_own' = {p \in view_own : p[1] # key} \cup {<<key, v>>}
            /\ last' = Did("view_setitem", 0, key, Leaf(v), NoResult, FALSE, {}, Nothing, "none")
       ELSE /\ UNCHANGED view_own
            /\ last' = Did("view_setitem", 0, key, Leaf(v), NoResult, FALSE, {}, Nothing,
                           "TypeError")
    /\ rd_out' = NoResult
    /\ UNCHANGED <<rd_value, rd_subs, rd_table, rd_given, rd_raw, rd_moved>>
    /\ UNCHANGED <<value, subscribers, is_active, signature, loop, ctl, thread_effect,
                   task_effect, ready>>
    /\ reads' = Track
    /\ UNCHANGED <<stopped, threadVars, otherVars, writerVars, proxyVars>>

\* view[key] = v
ViewSetItem(key, v) ==
    /\ ctl = "main"
    /\ last' = Did("view_setitem", 0, key, Leaf(v), NoResult, FALSE, {}, Nothing, "TypeError")
    /\ rd_out' = NoResult
    /\ UNCHANGED <<rd_value, rd_subs, rd_table, rd_given, rd_raw, rd_moved, view_own>>
    /\ UNCHANGED <<value, subscribers, is_active, signature, loop, ctl, thread_effect,
                   task_effect, ready>>
    /\ reads' = Track
    /\ UNCHANGED <<stopped, threadVars, otherVars, writerVars, proxyVars>>

\* Reads through the view.  The program reads the keys a and b of the record
\* and the key nonexistent, which the record does not have.  A read of a key
\* the record has goes through the getter of the key's container and yields
\* a view of the nested record or a read-only wrapper of the container.
ViewReadKeys == {"a", "b", "nonexistent"}
ViewResult(n) == [kind |-> "view", v |-> n]
ReadOnlyRefResult(c) == [kind |-> "readonly_ref", v |-> c]
Message(exc, key) == [kind |-> exc, v |-> key]     \* an exception whose text names key

\* The common body of __getattr__ and __getitem__: the test for the key, the
\* read through the getter, the wrapping of what the container holds.
ViewLookup(key, absent, tslot, aslot) ==
    IF key \notin DOMAIN rd_table[Root]
    THEN [out |-> Message(absent, key), subs |-> rd_subs, exc |-> absent, ref |-> 0]
    ELSE LET target_ref == rd_table[Root][key]
             g == Getter(rd_subs, target_ref, MainMode, tslot, aslot)
         IN [out |-> IF g.exc # "none" THEN NoResult
                     ELSE IF rd_value[target_ref].kind = "record"
                          THEN ViewResult(rd_value[target_ref].v)
                          ELSE ReadOnlyRefResult(target_ref),
             subs |-> g.subs, exc |-> g.exc, ref |-> target_ref]

\* ReadOnlyRef(target_ref) subscribes a relay of its own to the container;
\* the relays are counted per container.  A relay whose proxy has no
\* subscribers forwards a change to nobody.
WithRelay(out) ==
    IF out.kind = "readonly_ref" THEN [relays EXCEPT ![out.v] = @ + 1] ELSE relays
RoomForRelay(out) == out.kind = "readonly_ref" => relays[out.v] < MaxRelays
SubscriberCount(c) == Cardinality(rd_subs[c]) + relays[c]

\* Mutant: the item read fails like the attribute read.
ViewGetItem_AttributeError(key) ==
    /\ ctl = "main"
    /\ LET r == ViewLookup(key, "AttributeError", thread_effect, task_effect)
       IN /\ RoomForRelay(r.out)
          /\ rd_subs' = r.subs
          /\ relays' = WithRelay(r.out)
          /\ rd_out' = r.out
          /\ last' = Did("view_getitem", r.ref, key, NoResult, NoResult, FALSE, {}, Nothing, r.exc)
    /\ UNCHANGED <<rd_value, rd_table, rd_given, rd_raw, rd_moved, view_own>>
    /\ UNCHANGED <<value, subscribers, is_active, signature, loop, ctl, thread_effect,
                   task_effect, ready>>
    /\ reads' = Track
    /\ UNCHANGED <<stopped, threadVars, notViewVars, writerVars, proxyVars>>

\* view.<name>
ViewGetAttr(name) ==
    /\ ctl = "main"
    /\ LET r == ViewLookup(name, "AttributeError", thread_effect, task_effect)
       IN /\ RoomForRelay(r.out)
          /\ rd_subs' = r.subs
          /\ relays' = WithRelay(r.out)
          /\ rd_out' = r.out
          /\ last' = Did("view_getattr", r.ref, name, NoResult, NoResult, FALSE, {}, Nothing, r.exc)
    /\ UNCHANGED <<rd_value, rd_table, rd_given, rd_raw, rd_moved, view_own>>
    /\ UNCHANGED <<value, subscribers, is_active, signature, loop, ctl, thread_effect,
                   task_effect, ready>>
    /\ reads' = Track
    /\ UNCHANGED <<stopped, threadVars, notViewVars, writerVars, proxyVars>>

\* view[key]
ViewGetItem(key) ==
    /\ ctl = "main"
    /\ LET r == ViewLookup(key, "KeyError", thread_effect, task_effect)
       IN /\ RoomForRelay(r.out)
          /\ rd_subs' = r.subs
          /\ relays' = WithRelay(r.out)
          /\ rd_out' = r.out
          /\ last' = Did("view_getitem", r.ref, key, NoResult, NoResult, FALSE, {}, Nothing, r.exc)
    /\ UNCHANGED <<rd_value, rd_table, rd_given, rd_raw, rd_moved, view_own>>
    /\ UNCHANGED <<value, subscribers, is_active, signature, loop, ctl, thread_effect,
                   task_effect, ready>>
    /\ reads' = Track
    /\ UNCHANGED <<stopped, threadVars, notViewVars, writerVars, proxyVars>>

\* e() or await e() for an effect e whose function evaluates view.<key> and
\* does nothing with the result: the lookup runs with e as the current
\* effect of the thread, or of the task for an asynchronous effect.
ViewEffect(e, key) ==
    /\ ctl = "main"
    /\ is_active[e]
    /\ e \in AsyncEffects => loop
    /\ LET r == IF e \in AsyncEffects
                THEN ViewLookup(key, "AttributeError", thread_effect, e)
                ELSE ViewLookup(key, "AttributeError", e, task_effect)
       IN /\ RoomForRelay(r.out)
          /\ rd_subs' = r.subs
          /\ relays' = WithRelay(r.out)
          /\ last' = Did("view_effect", r.ref, e, NoResult, NoResult, FALSE, {}, Nothing, r.exc)
    /\ rd_out' = NoResult
    /\ UNCHANGED <<rd_value, rd_table, rd_given, rd_raw, rd_moved, view_own>>
    /\ UNCHANGED <<value, subscribers, is_active, signature, loop, ctl, thread_effect,
                   task_effect, ready>>
    /\ reads' = Track
    /\ UNCHANGED <<stopped, threadVars, notViewVars, writerVars, proxyVars>>

\* view.to_dict()
ViewToDict ==
    /\ ctl = "main"
    /\ rd_out' = Plain(ToDict(Root))
    /\ last' = Did("view_to_dict", 0, "", NoResult, NoResult, FALSE, {}, Nothing, "none")
    /\ UNCHANGED <<rd_value, rd_subs, rd_table, rd_given, rd_raw, rd_moved, view_own>>
    /\ UNCHANGED <<value, subscribers, is_active, signature, loop, ctl, thread_effect,
                   task_effect, ready>>
    /\ reads' = Track
    /\ UNCHANGED <<stopped, threadVars, otherVars, writerVars, proxyVars>>

\* result["a"] = v, result["b"]["c"] = v on the mapping a to_dict() call
\* returned.  An item assignment on a plain mapping changes that mapping; on
\* a record it is a write to the container of the key.
OutSetItem(path, v) ==
    /\ ctl = "main"
    /\ rd_out.kind = "map"
    /\ IF path = "a"
       THEN /\ rd_out' = Plain([rd_out.v EXCEPT !["a"] = Leaf(v)])
            /\ last' = Did("out_setitem", 0, path, Leaf(v), rd_out.v["a"], FALSE, {}, Nothing,
                           "none")
            /\ UNCHANGED <<rd_value, rd_subs>>
       ELSE LET inner == rd_out.v["b"]
            IN IF inner.kind = "map"
               THEN /\ "c" \in DOMAIN inner.v
                    /\ rd_out' = Plain([rd_out.v EXCEPT !["b"] =
                                           Plain([inner.v EXCEPT !["c"] = Leaf(v)])])
                    /\ last' = Did("out_setitem", 0, path, Leaf(v), inner.v["c"], FALSE, {},
                                   Nothing, "none")
                    /\ UNCHANGED <<rd_value, rd_subs>>
               ELSE /\ inner.kind = "record"
                    /\ "c" \in DOMAIN rd_table[inner.v]
                    /\ SetValue(rd_table[inner.v]["c"], Leaf(v), rd_value, rd_subs,
                                "out_setitem", path)
                    /\ UNCHANGED rd_out
    /\ UNCHANGED <<rd_table, rd_given, rd_raw, rd_moved, view_own>>
    /\ UNCHANGED <<value, subscribers, is_active, signature, loop, ctl, thread_effect,
                   task_effect, ready>>
    /\ reads' = Track
    /\ UNCHANGED <<stopped, threadVars, otherVars, writerVars, proxyVars>>

\* ------------------------------------- ReadOnlyView.__call__, ActionExecutor
\* Two views V1 and V2 wrap the same record.  The program registers the
\* functions f, boom (it raises ValueError) and an anonymous function, whose
\* __name__ is "<lambda>", and calls actions with positional and keyword
\* arguments.  A function returns what it was called with.
Views == {"V1", "V2"}
Funcs == {"f", "boom", "lambda"}
FuncName(fn) == IF fn = "lambda" THEN "<lambda>" ELSE fn
ActionNames == {"f", "boom", "custom"}
NotInvocable == {"int", "list"}        \* view(0), view([])
NoArgs == [pos |-> <<>>, kw |-> {}]
ArgChoices ==
    {[pos |-> p, kw |-> k] : p \in {<<>>} \cup {<<v>> : v \in Values},
                             k \in {{}} \cup {{<<"k", v>>} : v \in Values}}
NoValue == [by |-> None, args |-> NoArgs]

\* fn(*args, **kwargs)
Apply(fn, a) ==
    IF fn = "boom" THEN [ret |-> NoValue, exc |-> "ValueError"]
    ELSE [ret |-> [by |-> fn, args |-> a], exc |-> "none"]

ActDid(op, view, name, func, args, returned, result, raised, invoked) ==
    [op |-> op, view |-> view, name |-> name, func |-> func, args |-> args,
     returned |-> returned, result |-> result, raised |-> raised, invoked |-> invoked]

\* Mutant: one table for all views.
Register_Shared(view, fn) ==
    /\ IF FuncName(fn) = "<lambda>"
       THEN /\ UNCHANGED allowed_actions
            /\ act' = ActDid("register", view, FuncName(fn), fn, NoArgs, None, NoValue,
                             "TypeError", <<>>)
       ELSE /\ allowed_actions' = [w \in Views |-> [allowed_actions[w] EXCEPT ![FuncName(fn)] = fn]]
            /\ act' = ActDid("register", view, FuncName(fn), fn, NoArgs, fn, NoValue, "none", <<>>)
    /\ UNCHANGED <<executor, exec_seen>>
    /\ UNCHANGED notActionVars

\* Mutant: the function is stored before its name is examined.
Register_StoreFirst(view, fn) ==
    /\ allowed_actions' = [allowed_actions EXCEPT ![view][IF fn = "lambda" THEN "custom" ELSE fn] = fn]
    /\ act' = IF FuncName(fn) = "<lambda>"
              THEN ActDid("register", view, FuncName(fn), fn, NoArgs, None, NoValue, "TypeError", <<>>)
              ELSE ActDid("register", view, FuncName(fn), fn, NoArgs, fn, NoValue, "none", <<>>)
    /\ UNCHANGED <<executor, exec_seen>>
    /\ UNCHANGED notActionVars

\* view(fn) for a function fn, also written @view.
Register(view, fn) ==
    /\ IF FuncName(fn) = "<lambda>"
       THEN /\ UNCHANGED allowed_actions
            /\ act' = ActDid("register", view, FuncName(fn), fn, NoArgs, None, NoValue,
                             "TypeError", <<>>)
       ELSE /\ allowed_actions' = [allowed_actions EXCEPT ![view][FuncName(fn)] = fn]
            /\ act' = ActDid("register", view, FuncName(fn), fn, NoArgs, fn, NoValue, "none", <<>>)
    /\ UNCHANGED <<executor, exec_seen>>
    /\ UNCHANGED notActionVars

\* Mutant: the function is registered under its own name as well.
RegisterNamed_OwnNameToo(view, name, fn) ==
    /\ allowed_actions' = [allowed_actions EXCEPT ![view][name] = fn,
                                                  ![view][IF fn = "lambda" THEN name ELSE fn] = fn]
    /\ act' = ActDid("register_named", view, name, fn, NoArgs, fn, NoValue, "none", <<>>)
    /\ UNCHANGED <<executor, exec_seen>>
    /\ UNCHANGED notActionVars

\* view(name)(fn) for a text name, also written @view(name): the decorator
\* view(name) returns is applied to fn.
RegisterNamed(view, name, fn) ==
    /\ allowed_actions' = [allowed_actions EXCEPT ![view][name] = fn]
    /\ act' = ActDid("register_named", view, name, fn, NoArgs, fn, NoValue, "none", <<>>)
    /\ UNCHANGED <<executor, exec_seen>>
    /\ UNCHANGED notActionVars

\* view(x) for x that is not None, not callable and not text.
RegisterInvalid(view, x) ==
    /\ act' = ActDid("register_invalid", view, "", x, NoArgs, None, NoValue, "TypeError", <<>>)
    /\ UNCHANGED <<allowed_actions, executor, exec_seen>>
    /\ UNCHANGED notActionVars

\* ex = view(): the executor refers to the table of the view.
GetExecutor(view) ==
    /\ executor' = view
    /\ exec_seen' = allowed_actions[view]
    /\ act' = ActDid("executor", view, "", None, NoArgs, None, NoValue, "none", <<>>)
    /\ UNCHANGED allowed_actions
    /\ UNCHANGED notActionVars

\* Mutant: the wrapper passes the positional arguments only.
ExecCall_NoKeywords(name, a) ==
    /\ executor # None
    /\ LET fn == allowed_actions[executor][name]
           r == Apply(fn, [a EXCEPT !.kw = {}])
       IN act' = IF fn = None
                 THEN ActDid("call", executor, name, None, a, None, NoValue, "AttributeError", <<>>)
                 ELSE ActDid("call", executor, name, fn, a, None, r.ret, r.exc,
                             << <<fn, [a EXCEPT !.kw = {}]>> >>)
    /\ UNCHANGED <<allowed_actions, executor, exec_seen>>
    /\ UNCHANGED notActionVars

\* Mutant: the executor looks the name up in a copy of the table made when
\* it was obtained.
ExecCall_Copied(name, a) ==
    /\ executor # None
    /\ LET fn == exec_seen[name]
           r == Apply(fn, a)
       IN act' = IF fn = None
                 THEN ActDid("call", executor, name, None, a, None, NoValue, "AttributeError", <<>>)
                 ELSE ActDid("call", executor, name, fn, a, None, r.ret, r.exc, << <<fn, a>> >>)
    /\ UNCHANGED <<allowed_actions, executor, exec_seen>>
    /\ UNCHANGED notActionVars

\* ex.<name>(*args, **kwargs): ActionExecutor.__getattr__ and the call of the
\* wrapper it returns.
ExecCall(name, a) ==
    /\ executor # None
    /\ LET fn == allowed_actions[executor][name]
           r == Apply(fn, a)
       IN act' = IF fn = None
                 THEN ActDid("call", executor, name, None, a, None, NoValue, "AttributeError", <<>>)
                 ELSE ActDid("call", executor, name, fn, a, None, r.ret, r.exc, << <<fn, a>> >>)
    /\ UNCHANGED <<allowed_actions, executor, exec_seen>>
    /\ UNCHANGED notActionVars

InitActionsIdle ==
    /\ allowed_actions = <<>>
    /\ executor = None
    /\ exec_seen = <<>>
    /\ act = ActDid("init", None, "", None, NoArgs, None, NoValue, "none", <<>>)

\* ------------------------------------------------ infer_schema_from_data
\* The program infers the descriptor of mappings with the keys a and b in
\* either order, where a holds an int or a str and b holds a mapping with
\* the one key c that holds an int or a str.  A mapping is the sequence of
\* its items in the order of insertion.
MaxCalls == 2
LeafTypes == {"int", "str"}
SchemaLeaf(t, d) == [kind |-> "leaf", t |-> t, d |-> d, items |-> <<>>]
SchemaDict(items) == [kind |-> "dict", t |-> "dict", d |-> 0, items |-> items]
Item(k, v) == [k |-> k, v |-> v]
SchemaLeaves == {SchemaLeaf(t, d) : t \in LeafTypes, d \in Values}
SchemaInputs ==
    {SchemaDict(<<Item("a", x), Item("b", SchemaDict(<<Item("c", y)>>))>>) :
        x \in SchemaLeaves, y \in SchemaLeaves}
    \cup {SchemaDict(<<Item("b", SchemaDict(<<Item("c", y)>>)), Item("a", x)>>) :
        x \in SchemaLeaves, y \in SchemaLeaves}

\* sorted(obj.items()) and ','.join(...)
ItemAt(items, k) == items[CHOOSE i \in 1..Len(items) : items[i].k = k]
SortedItems(items) ==
    LET keys == SelectSeq(KeyOrder, LAMBDA k : \E i \in 1..Len(items) : items[i].k = k)
    IN [i \in 1..Len(keys) |-> ItemAt(items, keys[i])]
RECURSIVE Join(_)
Join(parts) ==
    IF parts = <<>> THEN ""
    ELSE IF Len(parts) = 1 THEN parts[1]
    ELSE parts[1] \o "," \o Join(Tail(parts))

\* get_structure of a value that holds no mapping
FlatStructure(obj) ==
    IF obj.kind = "dict"
    THEN "dict(" \o Join([i \in 1..Len(obj.items) |->
                             SortedItems(obj.items)[i].k \o ":" \o SortedItems(obj.items)[i].v.t])
                 \o ")"
    ELSE obj.t

\* Mutant: the items are taken in the order of insertion.
GenerateCacheKey_Unsorted(data) ==
    "dict(" \o Join([i \in 1..Len(data.items) |->
                        data.items[i].k \o ":" \o FlatStructure(data.items[i].v)])
            \o ")"

\* _generate_cache_key(data)
GenerateCacheKey(data) ==
    "dict(" \o Join([i \in 1..Len(data.items) |->
                        SortedItems(data.items)[i].k \o ":"
                            \o FlatStructure(SortedItems(data.items)[i].v)])
            \o ")"

Cached(cache, key) == (CHOOSE e \in cache : e.key = key).id
Hit(cache, key) == \E e \in cache : e.key = key

\* infer_schema_from_data(value, ..., schema_cache) for a mapping that holds
\* no mapping: the call _infer_field_type makes for a nested mapping.
InferNested(data, cache, made) ==
    LET cache_key == GenerateCacheKey(data)
    IN IF Hit(cache, cache_key)
       THEN [ret |-> Cached(cache, cache_key), cache |-> cache, made |-> made]
       ELSE [ret |-> made + 1, made |-> made + 1,
             cache |-> cache \cup {[key |-> cache_key, id |-> made + 1]}]

\* The loop over data.items(): every non-empty nested mapping is inferred
\* with the cache of the call.
RECURSIVE InferFields(_, _, _)
InferFields(items, cache, made) ==
    IF items = <<>> THEN [cache |-> cache, made |-> made]
    ELSE LET v == Head(items).v
             r == IF v.kind = "dict" /\ v.items # <<>>
                  THEN InferNested(v, cache, made)
                  ELSE [ret |-> 0, cache |-> cache, made |-> made]
         IN InferFields(Tail(items), r.cache, r.made)

\* infer_schema_from_data(data, type_name, cache)
InferSchema(data, cache, made) ==
    LET cache_key == GenerateCacheKey(data)
    IN IF Hit(cache, cache_key)
       THEN [ret |-> Cached(cache, cache_key), cache |-> cache, made |-> made]
       ELSE LET f == InferFields(data.items, cache, made)
            IN [ret |-> f.made + 1, made |-> f.made + 1,
                cache |-> f.cache \cup {[key |-> cache_key, id |-> f.made + 1]}]

\* d = infer_schema_from_data(data): the cache of the call is a new, empty
\* one, which is dropped when the call returns.
InferDefault(data) ==
    /\ Len(inferred) < MaxCalls
    /\ LET r == InferSchema(data, {}, descriptors)
       IN /\ descriptors' = r.made
          /\ inferred' = Append(inferred, [data |-> data, shared |-> FALSE, ret |-> r.ret])
    /\ UNCHANGED schema_cache
    /\ UNCHANGED notSchemaVars

\* d = infer_schema_from_data(data, "InferredSchema", cache) with the cache
\* the program keeps.
InferWithCache(data) ==
    /\ Len(inferred) < MaxCalls
    /\ LET r == InferSchema(data, schema_cache, descriptors)
       IN /\ descriptors' = r.made
          /\ schema_cache' = r.cache
          /\ inferred' = Append(inferred, [data |-> data, shared |-> TRUE, ret |-> r.ret])
    /\ UNCHANGED notSchemaVars

InitSchemaIdle ==
    /\ schema_cache = {}
    /\ descriptors = 0
    /\ inferred = <<>>

\* ------------------------------------------- nested effects, two threads
\* Two threads run effects step by step.  The effect outer invokes the
\* effect inner from its body; the bodies read Refs, return or raise.  A
\* thread is a plain thread (mode "none"), runs a plain callback of its event
\* loop (mode "handle") or runs a task of its event loop (mode "task"); only
\* a task awaits asynchronous effects.
NestedThreads == {"T1", "T2"}
NestedEffects == {"outer", "inner"}
Modes == {"none", "handle", "task"}
Frame(e, is_async, old, prior) == [e |-> e, is_async |-> is_async, old |-> old, prior |-> prior]
OnStack(t) == {n_stack[t][i].e : i \in 1..Len(n_stack[t])}
Running(t) == IF n_stack[t] = <<>> THEN None ELSE Last(n_stack[t]).e
NDid(op, t, e, r, exc) == [op |-> op, t |-> t, e |-> e, r |-> r, exc |-> exc]

\* Mutant: one slot that all threads share.
ThreadSlot_Shared(t) ==
    IF \E w \in NestedThreads : n_slot[w] # None
    THEN n_slot[CHOOSE w \in NestedThreads : n_slot[w] # None]
    ELSE None

\* local._thread_local_current_effect.value, read on thread t, and
\* local._async_local_current_effect.get() in the context of thread t.
ThreadSlot(t) == n_slot[t]
TaskSlot(t) == n_ctx[t]

\* The finally clause of _run_sync_effect or _run_async_effect for the
\* innermost invocation of thread t.
Restored(t, slots) ==
    LET top == Last(n_stack[t])
    IN IF slots = "thread"
       THEN IF top.is_async THEN n_slot[t] ELSE top.old
       ELSE IF top.is_async THEN top.old ELSE n_ctx[t]

\* e(...) or `await e(...)` on thread t, from the program of the thread or
\* from the body of outer: the slot is saved and set to e.
NInvoke(t, e, is_async) ==
    /\ n_exc[t] = "none"
    /\ e \notin OnStack(t)
    /\ Running(t) \in {None, "outer"}
    /\ is_async => n_mode[t] = "task" /\ \A i \in 1..Len(n_stack[t]) : n_stack[t][i].is_async
    /\ n_stack' = [n_stack EXCEPT ![t] =
                     Append(@, Frame(e, is_async, IF is_async THEN TaskSlot(t) ELSE ThreadSlot(t),
                                     <<n_slot[t], n_ctx[t]>>))]
    /\ n_slot' = IF is_async THEN n_slot ELSE [n_slot EXCEPT ![t] = e]
    /\ n_ctx' = IF is_async THEN [n_ctx EXCEPT ![t] = e] ELSE n_ctx
    /\ n_last' = NDid("invoke", t, e, None, "none")
    /\ UNCHANGED <<n_mode, n_exc, n_subs>>
    /\ UNCHANGED notNestedVars

\* r.value on thread t, in the body that is running or in the program of
\* the thread.
NRead(t, r) ==
    /\ n_exc[t] = "none"
    /\ LET g == Getter(n_subs, r, n_mode[t], ThreadSlot(t), TaskSlot(t))
       IN /\ n_subs' = g.subs
          /\ n_exc' = [n_exc EXCEPT ![t] = g.exc]
          /\ n_last' = NDid("read", t, Running(t), r, g.exc)
    /\ UNCHANGED <<n_mode, n_slot, n_ctx, n_stack>>
    /\ UNCHANGED notNestedVars

\* The body of the innermost invocation of thread t returns.
NReturn(t) ==
    /\ n_exc[t] = "none"
    /\ n_stack[t] # <<>>
    /\ n_slot' = [n_slot EXCEPT ![t] = Restored(t, "thread")]
    /\ n_ctx' = [n_ctx EXCEPT ![t] = Restored(t, "task")]
    /\ n_stack' = [n_stack EXCEPT ![t] = SubSeq(@, 1, Len(@) - 1)]
    /\ n_last' = NDid("return", t, Running(t), None, "none")
    /\ UNCHANGED <<n_mode, n_exc, n_subs>>
    /\ UNCHANGED notNestedVars

\* The body of the innermost invocation of thread t raises.
NFail(t) ==
    /\ n_exc[t] = "none"
    /\ n_stack[t] # <<>>
    /\ n_exc' = [n_exc EXCEPT ![t] = "ValueError"]
    /\ n_last' = NDid("raise", t, Running(t), None, "ValueError")
    /\ UNCHANGED <<n_mode, n_slot, n_ctx, n_stack, n_subs>>
    /\ UNCHANGED notNestedVars

\* An exception leaves the innermost invocation of thread t: the finally
\* clause runs and the exception reaches the caller.
NUnwind(t) ==
    /\ n_exc[t] # "none"
    /\ n_stack[t] # <<>>
    /\ n_slot' = [n_slot EXCEPT ![t] = Restored(t, "thread")]
    /\ n_ctx' = [n_ctx EXCEPT ![t] = Restored(t, "task")]
    /\ n_stack' = [n_stack EXCEPT ![t] = SubSeq(@, 1, Len(@) - 1)]
    /\ n_last' = NDid("unwind", t, Running(t), None, n_exc[t])
    /\ UNCHANGED <<n_mode, n_exc, n_subs>>
    /\ UNCHANGED notNestedVars

\* The body that is running, or the program of the thread, catches the
\* exception.
NCatch(t) ==
    /\ n_exc[t] # "none"
    /\ n_exc' = [n_exc EXCEPT ![t] = "none"]
    /\ n_last' = NDid("catch", t, Running(t), None, n_exc[t])
    /\ UNCHANGED <<n_mode, n_slot, n_ctx, n_stack, n_subs>>
    /\ UNCHANGED notNestedVars

InitNestedIdle ==
    /\ n_mode = <<>> /\ n_slot = <<>> /\ n_ctx = <<>> /\ n_stack = <<>> /\ n_exc = <<>>
    /\ n_subs = <<>>
    /\ n_last = NDid("init", None, None, None, "none")

\* ------------------------------------------------- _subscribers_lock
\* Two threads write Refs; the subscribers they notify call back into the
\* Refs.  Every Ref has a lock of its own that is not reentrant.  The
\* callbacks: subscribes subscribes the callback writes to a Ref,
\* unsubscribes unsubscribes itself from a Ref, reads is an effect whose body
\* reads a Ref, writes assigns the value it was called with to a Ref unless
\* MaxNest notifications are already under way on its thread.
MaxNest == 2
LockThreads == {"T1", "T2"}
LockCallbacks == {"subscribes", "unsubscribes", "reads", "writes"}
StartSets == {S \in SUBSET LockCallbacks : Cardinality(S) = 2}
LFrame(kind, r, cb, todo, new, phase) ==
    [kind |-> kind, r |-> r, cb |-> cb, todo |-> todo, new |-> new, phase |-> phase]
LTop(t) == Last(l_stack[t])
LPush(t, f) == [l_stack EXCEPT ![t] = Append(@, f)]
LPop(t) == [l_stack EXCEPT ![t] = SubSeq(@, 1, Len(@) - 1)]
LSetTop(t, f) == [l_stack EXCEPT ![t] = Append(SubSeq(@, 1, Len(@) - 1), f)]
Nesting(t) == Cardinality({i \in 1..Len(l_stack[t]) : l_stack[t][i].kind = "notify"})
Calling(t) == l_stack[t] # <<>> /\ LTop(t).kind = "notify" /\ LTop(t).phase = "calling"

\* r.value = v by the program of thread t.
LWrite(t, r, v) ==
    /\ l_stack[t] = <<>>
    /\ ~l_done[t]
    /\ l_done' = [l_done EXCEPT ![t] = TRUE]
    /\ IF l_value[r] # v
       THEN /\ l_value' = [l_value EXCEPT ![r] = v]
            /\ l_stack' = LPush(t, LFrame("notify", r, None, {}, v, "acquire"))
       ELSE UNCHANGED <<l_value, l_stack>>
    /\ UNCHANGED <<l_mode, l_subs, l_lock>>
    /\ UNCHANGED notLockVars

\* `with self._subscribers_lock:` is entered: the thread waits until the
\* lock is free, also when it holds the lock itself.
LAcquire(t) ==
    /\ l_stack[t] # <<>>
    /\ LTop(t).phase = "acquire"
    /\ l_lock[LTop(t).r] = None
    /\ l_lock' = [l_lock EXCEPT ![LTop(t).r] = t]
    /\ l_stack' = LSetTop(t, [LTop(t) EXCEPT !.phase = "locked"])
    /\ UNCHANGED <<l_mode, l_value, l_subs, l_done>>
    /\ UNCHANGED notLockVars

\* Mutant: the lock is kept while the subscribers are called.
LSnapshot_KeepLock(t) ==
    /\ l_stack[t] # <<>>
    /\ LTop(t).kind = "notify" /\ LTop(t).phase = "locked"
    /\ l_stack' = LSetTop(t, [LTop(t) EXCEPT !.todo = l_subs[LTop(t).r], !.phase = "calling"])
    /\ UNCHANGED <<l_mode, l_value, l_subs, l_done, l_lock>>
    /\ UNCHANGED notLockVars

\* subscribers_to_notify = list(self._subscribers), and the lock is released.
LSnapshot(t) ==
    /\ l_stack[t] # <<>>
    /\ LTop(t).kind = "notify" /\ LTop(t).phase = "locked"
    /\ l_lock' = [l_lock EXCEPT ![LTop(t).r] = None]
    /\ l_stack' = LSetTop(t, [LTop(t) EXCEPT !.todo = l_subs[LTop(t).r], !.phase = "calling"])
    /\ UNCHANGED <<l_mode, l_value, l_subs, l_done>>
    /\ UNCHANGED notLockVars

\* The body of the with statement of subscribe, of unsubscribe or of the
\* getter, and the release of the lock; the call returns.
LUpdate(t) ==
    /\ l_stack[t] # <<>>
    /\ LTop(t).kind # "notify" /\ LTop(t).phase = "locked"
    /\ l_subs' = [l_subs EXCEPT ![LTop(t).r] =
                    IF LTop(t).kind = "unsubscribe" THEN @ \ {LTop(t).cb} ELSE @ \cup {LTop(t).cb}]
    /\ l_lock' = [l_lock EXCEPT ![LTop(t).r] = None]
    /\ l_stack' = LPop(t)
    /\ UNCHANGED <<l_mode, l_value, l_done>>
    /\ UNCHANGED notLockVars

\* The for loop calls the callback subscribes, which calls q.subscribe(writes).
LCallSubscribes(t, q) ==
    /\ Calling(t) /\ "subscribes" \in LTop(t).todo
    /\ l_stack' = [l_stack EXCEPT ![t] =
                     Append(SubSeq(@, 1, Len(@) - 1), [LTop(t) EXCEPT !.todo = @ \ {"subscribes"}])
                        \o <<LFrame("subscribe", q, "writes", {}, 0, "acquire")>>]
    /\ UNCHANGED <<l_mode, l_value, l_subs, l_lock, l_done>>
    /\ UNCHANGED notLockVars

\* The for loop calls the callback unsubscribes, which calls
\* q.unsubscribe(unsubscribes).
LCallUnsubscribes(t, q) ==
    /\ Calling(t) /\ "unsubscribes" \in LTop(t).todo
    /\ l_stack' = [l_stack EXCEPT ![t] =
                     Append(SubSeq(@, 1, Len(@) - 1), [LTop(t) EXCEPT !.todo = @ \ {"unsubscribes"}])
                        \o <<LFrame("unsubscribe", q, "unsubscribes", {}, 0, "acquire")>>]
    /\ UNCHANGED <<l_mode, l_value, l_subs, l_lock, l_done>>
    /\ UNCHANGED notLockVars

\* The for loop calls the effect reads, whose body reads q.value: the getter
\* raises with no running loop, and otherwise finds the effect in the slot
\* of the thread and adds it under the lock.
LCallReads(t, q) ==
    /\ Calling(t) /\ "reads" \in LTop(t).todo
    /\ l_stack' = [l_stack EXCEPT ![t] =
                     Append(SubSeq(@, 1, Len(@) - 1), [LTop(t) EXCEPT !.todo = @ \ {"reads"}])
                        \o IF l_mode = "none" THEN <<>>
                           ELSE <<LFrame("read", q, "reads", {}, 0, "acquire")>>]
    /\ UNCHANGED <<l_mode, l_value, l_subs, l_lock, l_done>>
    /\ UNCHANGED notLockVars

\* The for loop calls the callback writes, which assigns the new value to q.
LCallWrites(t, q) ==
    /\ Calling(t) /\ "writes" \in LTop(t).todo
    /\ LET rest == Append(SubSeq(l_stack[t], 1, Len(l_stack[t]) - 1),
                          [LTop(t) EXCEPT !.todo = @ \ {"writes"}])
       IN IF Nesting(t) < MaxNest /\ l_value[q] # LTop(t).new
          THEN /\ l_value' = [l_value EXCEPT ![q] = LTop(t).new]
               /\ l_stack' = [l_stack EXCEPT ![t] =
                                rest \o <<LFrame("notify", q, None, {}, LTop(t).new, "acquire")>>]
          ELSE /\ l_stack' = [l_stack EXCEPT ![t] = rest]
               /\ UNCHANGED l_value
    /\ UNCHANGED <<l_mode, l_subs, l_lock, l_done>>
    /\ UNCHANGED notLockVars

\* The for loop has called every subscriber of the snapshot:
\* _notify_subscribers returns.
LReturn(t) ==
    /\ Calling(t) /\ LTop(t).todo = {}
    /\ l_stack' = LPop(t)
    /\ UNCHANGED <<l_mode, l_value, l_subs, l_lock, l_done>>
    /\ UNCHANGED notLockVars

\* The steps of thread t inside a write.
LockStep(t) ==
    \/ LAcquire(t) \/ LSnapshot(t) \/ LUpdate(t) \/ LReturn(t)
    \/ \E q \in Refs : LCallSubscribes(t, q) \/ LCallUnsubscribes(t, q)
                           \/ LCallReads(t, q) \/ LCallWrites(t, q)

InitLockIdle ==
    /\ l_mode = "none" /\ l_value = <<>> /\ l_subs = <<>> /\ l_lock = <<>> /\ l_stack = <<>>
    /\ l_done = <<>>

InitRoundIdle == r_value = <<>> /\ r_subs = <<>> /\ r_stack = <<>> /\ r_log = <<>>

InitViewIdle == relays = <<>>

InitOtherIdle ==
    /\ InitActionsIdle /\ InitSchemaIdle /\ InitNestedIdle /\ InitLockIdle
    /\ InitRoundIdle /\ InitViewIdle

\* ------------------------------------------- re-entrant notification
\* One thread writes a Ref once; the subscribers it notifies call back into
\* that Ref: remover unsubscribes the callback plain, adder subscribes the
\* callback late, flips assigns the other value unless MaxNest rounds are
\* already under way, plain and late do nothing.  In one thread the lock is
\* free whenever it is asked for, so the setter up to the snapshot is one
\* step, and every call of a subscriber is one step.
RoundCallbacks == {"remover", "adder", "flips", "plain", "late"}
Round(r, new, old, snap) == [r |-> r, new |-> new, old |-> old, snap |-> snap, calls |-> <<>>]
RoundCall(cb, seen, member) == [cb |-> cb, seen |-> seen, member |-> member]
RoundFrame(i, todo) == [round |-> i, todo |-> todo]
RTop == r_log[Last(r_stack).round]
Called(i) == {r_log[i].calls[j].cb : j \in 1..Len(r_log[i].calls)}

\* Mutant: the for loop iterates over the subscriber set itself.
ToNotify_Live(f) == r_subs[r_log[f.round].r] \ Called(f.round)

\* The entries of subscribers_to_notify the for loop has not reached yet.
ToNotify(f) == f.todo

\* Ref.value = v: the comparison, the store and the snapshot.
RoundSet(r, v) ==
    IF r_value[r] # v
    THEN /\ r_value' = [r_value EXCEPT ![r] = v]
         /\ r_log' = Append(r_log, Round(r, v, r_value[r], r_subs[r]))
         /\ r_stack' = Append(r_stack, RoundFrame(Len(r_log) + 1, r_subs[r]))
    ELSE UNCHANGED <<r_value, r_log, r_stack>>

\* The call of callback by the for loop is entered in the round's record,
\* with the value the Ref holds at that moment.
Logged(callback) ==
    [r_log EXCEPT ![Last(r_stack).round].calls =
        Append(@, RoundCall(callback, r_value[RTop.r], callback \in r_subs[RTop.r]))]
Advanced(callback) ==
    Append(SubSeq(r_stack, 1, Len(r_stack) - 1),
           [Last(r_stack) EXCEPT !.todo = @ \ {callback}])

\* r.value = v by the program.
RWrite(r, v) ==
    /\ r_stack = <<>> /\ r_log = <<>>
    /\ r_value[r] # v
    /\ RoundSet(r, v)
    /\ UNCHANGED r_subs
    /\ UNCHANGED notRoundVars

\* callback(new_value, old_value) for remover: r.unsubscribe(plain)
RCallRemover ==
    /\ r_stack # <<>> /\ "remover" \in ToNotify(Last(r_stack))
    /\ r_log' = Logged("remover")
    /\ r_stack' = Advanced("remover")
    /\ r_subs' = [r_subs EXCEPT ![RTop.r] = @ \ {"plain"}]
    /\ UNCHANGED r_value
    /\ UNCHANGED notRoundVars

\* callback(new_value, old_value) for adder: r.subscribe(late)
RCallAdder ==
    /\ r_stack # <<>> /\ "adder" \in ToNotify(Last(r_stack))
    /\ r_log' = Logged("adder")
    /\ r_stack' = Advanced("adder")
    /\ r_subs' = [r_subs EXCEPT ![RTop.r] = @ \cup {"late"}]
    /\ UNCHANGED r_value
    /\ UNCHANGED notRoundVars

\* callback(new_value, old_value) for flips: r.value = 1 - new_value, which
\* starts a round of its own when the value differs from the stored one.
RCallFlips ==
    /\ r_stack # <<>> /\ "flips" \in ToNotify(Last(r_stack))
    /\ LET r == RTop.r
           v == 1 - RTop.new
           log == Logged("flips")
       IN IF Len(r_stack) < MaxNest /\ r_value[r] # v
          THEN /\ r_value' = [r_value EXCEPT ![r] = v]
               /\ r_log' = Append(log, Round(r, v, r_value[r], r_subs[r]))
               /\ r_stack' = Append(Advanced("flips"), RoundFrame(Len(r_log) + 1, r_subs[r]))
          ELSE /\ r_log' = log
               /\ r_stack' = Advanced("flips")
               /\ UNCHANGED r_value
    /\ UNCHANGED r_subs
    /\ UNCHANGED notRoundVars

\* callback(new_value, old_value) for plain and late
RCallPlain(callback) ==
    /\ r_stack # <<>> /\ callback \in ToNotify(Last(r_stack))
    /\ r_log' = Logged(callback)
    /\ r_stack' = Advanced(callback)
    /\ UNCHANGED <<r_value, r_subs>>
    /\ UNCHANGED notRoundVars

\* The for loop has ended: _notify_subscribers and the setter return.
RReturn ==
    /\ r_stack # <<>> /\ ToNotify(Last(r_stack)) = {}
    /\ r_stack' = SubSeq(r_stack, 1, Len(r_stack) - 1)
    /\ UNCHANGED <<r_value, r_subs, r_log>>
    /\ UNCHANGED notRoundVars

\* ---------------------------------------------------- worker threads
\* test_thread_safety: every worker repeats Steps times
\*     current = ref.value ; ref.value = current + 1
\* on the Ref Counter.  A thread switch can happen between any two reads or
\* writes of Ref._value.
\* Getter: asyncio.current_task(None) raises in a thread without an event
\* loop and the worker ends; no effect is active in a worker.
TRead(t) ==
    /\ t_pc[t] = "read"
    /\ LET g == Getter(subscribers, Counter, IF t_loop[t] THEN "task" ELSE "none", None, None)
       IN IF g.exc # "none"
          THEN /\ t_pc' = [t_pc EXCEPT ![t] = "dead"]
               /\ UNCHANGED <<subscribers, t_current>>
          ELSE /\ t_pc' = [t_pc EXCEPT ![t] = "compare"]
               /\ subscribers' = g.subs
               /\ t_current' = [t_current EXCEPT ![t] = value[Counter]]
    /\ UNCHANGED <<value, t_loop, t_old, t_left, t_done>>
    /\ UNCHANGED <<mainVars, extVars>>

\* Setter: if self._value != new_value
TCompare(t) ==
    /\ t_pc[t] = "compare"
    /\ IF value[Counter] # t_current[t] + 1
       THEN /\ t_pc' = [t_pc EXCEPT ![t] = "old"]
            /\ UNCHANGED <<t_left, t_done>>
       ELSE /\ t_pc' = [t_pc EXCEPT ![t] = IF t_left[t] = 1 THEN "done" ELSE "read"]
            /\ t_left' = [t_left EXCEPT ![t] = @ - 1]
            /\ t_done' = [t_done EXCEPT ![t] = @ + 1]
    /\ UNCHANGED <<value, subscribers, t_loop, t_current, t_old>>
    /\ UNCHANGED <<mainVars, extVars>>

\* Setter: old_value = self._value
TOld(t) ==
    /\ t_pc[t] = "old"
    /\ t_old' = [t_old EXCEPT ![t] = value[Counter]]
    /\ t_pc' = [t_pc EXCEPT ![t] = "store"]
    /\ UNCHANGED <<value, subscribers, t_loop, t_current, t_left, t_done>>
    /\ UNCHANGED <<mainVars, extVars>>

\* Setter: self._value = new_value
TStore(t) ==
    /\ t_pc[t] = "store"
    /\ value' = [value EXCEPT ![Counter] = t_current[t] + 1]
    /\ t_pc' = [t_pc EXCEPT ![t] = "notify"]
    /\ UNCHANGED <<subscribers, t_loop, t_current, t_old, t_left, t_done>>
    /\ UNCHANGED <<mainVars, extVars>>

\* Setter: self._notify_subscribers(old_value, new_value), and the next
\* iteration of the worker.
TNotify(t) ==
    /\ t_pc[t] = "notify"
    /\ \E order \in Perms(subscribers[Counter]) :
         LET n == NotifySubscribers(order, subscribers, t_old[t], t_current[t] + 1, value,
                                    IF t_loop[t] THEN "task" ELSE "none", None, None)
         IN subscribers' = n.acc.subs
    /\ t_pc' = [t_pc EXCEPT ![t] = IF t_left[t] = 1 THEN "done" ELSE "read"]
    /\ t_left' = [t_left EXCEPT ![t] = @ - 1]
    /\ t_done' = [t_done EXCEPT ![t] = @ + 1]
    /\ UNCHANGED <<value, t_loop, t_current, t_old>>
    /\ UNCHANGED <<mainVars, extVars>>

\* ---------------------------------------------------- writer threads
\* Several threads assign to one shared Ref that has the subscriber
\* on_change: every writer repeats Steps times  ref.value = v  for values v
\* of its choice.  A write does not call the getter.  A thread switch can
\* happen between any two reads or writes of Ref._value.
\* Setter: if self._value != new_value
WCompare(t, v) ==
    /\ w_pc[t] = "compare"
    /\ w_new' = [w_new EXCEPT ![t] = v]
    /\ IF value[Counter] # v
       THEN /\ w_pc' = [w_pc EXCEPT ![t] = "old"]
            /\ UNCHANGED w_left
       ELSE /\ w_pc' = [w_pc EXCEPT ![t] = IF w_left[t] = 1 THEN "done" ELSE "compare"]
            /\ w_left' = [w_left EXCEPT ![t] = @ - 1]
    /\ UNCHANGED <<value, subscribers, w_old, notified>>
    /\ UNCHANGED <<mainVars, threadVars, proxyVars, recordVars, otherVars>>

\* Setter: old_value = self._value
WOld(t) ==
    /\ w_pc[t] = "old"
    /\ w_old' = [w_old EXCEPT ![t] = value[Counter]]
    /\ w_pc' = [w_pc EXCEPT ![t] = "store"]
    /\ UNCHANGED <<value, subscribers, w_new, w_left, notified>>
    /\ UNCHANGED <<mainVars, threadVars, proxyVars, recordVars, otherVars>>

\* Setter: self._value = new_value
WStore(t) ==
    /\ w_pc[t] = "store"
    /\ value' = [value EXCEPT ![Counter] = w_new[t]]
    /\ w_pc' = [w_pc EXCEPT ![t] = "notify"]
    /\ UNCHANGED <<subscribers, w_new, w_old, w_left, notified>>
    /\ UNCHANGED <<mainVars, threadVars, proxyVars, recordVars, otherVars>>

\* Setter: self._notify_subscribers(old_value, new_value).  The calls of
\* on_change made by different threads are appended to its list one at a
\* time.
WNotify(t) ==
    /\ w_pc[t] = "notify"
    /\ \E order \in Perms(subscribers[Counter]) :
         LET n == NotifySubscribers(order, subscribers, w_old[t], w_new[t], value,
                                    "none", None, None)
         IN /\ subscribers' = n.acc.subs
            /\ notified' = notified \o n.acc.calls["on_change"]
    /\ w_pc' = [w_pc EXCEPT ![t] = IF w_left[t] = 1 THEN "done" ELSE "compare"]
    /\ w_left' = [w_left EXCEPT ![t] = @ - 1]
    /\ UNCHANGED <<value, w_new, w_old>>
    /\ UNCHANGED <<mainVars, threadVars, proxyVars, recordVars, otherVars>>

\* ------------------------------------------------------ specifications
InitRefs ==
    /\ value \in [Refs -> Values]
    /\ subscribers = [r \in Refs |-> {}]

InitThreadsIdle ==
    /\ t_pc = [t \in Threads |-> "done"]
    /\ t_loop = [t \in Threads |-> FALSE]
    /\ t_current = [t \in Threads |-> 0]
    /\ t_old = [t \in Threads |-> 0]
    /\ t_left = [t \in Threads |-> 0]
    /\ t_done = [t \in Threads |-> 0]

InitWritersIdle ==
    /\ w_pc = [t \in Threads |-> "done"]
    /\ w_new = [t \in Threads |-> 0]
    /\ w_old = [t \in Threads |-> 0]
    /\ w_left = [t \in Threads |-> 0]
    /\ notified = <<>>

InitRecordIdle ==
    /\ rd_value = <<>>
    /\ rd_subs = <<>>
    /\ rd_table = <<>>
    /\ rd_given = <<>>
    /\ rd_out = NoResult
    /\ rd_raw = 0
    /\ rd_moved = FALSE
    /\ view_own = {}

InitExtIdle ==
    /\ InitWritersIdle /\ proxy_subscribers = <<>> /\ ready_for = <<>> /\ InitRecordIdle
    /\ InitOtherIdle

InitMain ==
    /\ is_active = [e \in Effects |-> TRUE]
    /\ signature \in {"noargs", "varargs"}
    /\ ctl = "main"
    /\ thread_effect = None
    /\ task_effect = None
    /\ ready = <<>>
    /\ last = Did("init", None, None, 0, 0, FALSE, {}, Nothing, "none")
    /\ reads = NoReads
    /\ stopped = {}

\* Spec: a program running in a thread without an event loop.
Init == InitRefs /\ InitMain /\ InitThreadsIdle /\ InitExtIdle /\ loop = FALSE

Next ==
    \/ \E r \in Refs, v \in Values : Write(r, v)
    \/ \E r \in Refs, s \in Subs : Subscribe(r, s)
    \/ \E r \in Refs, s \in Subs : Unsubscribe(r, s)
    \/ \E e \in Effects : Invoke(e)
    \/ \E e \in Effects : Stop(e)

Spec == Init /\ [][Next]_vars

\* SpecLoop: a program running as the main task of an event loop.  It
\* subscribes plain callbacks; its effects become subscribers through the
\* reads of their runs.
InitLoop == InitRefs /\ InitMain /\ InitThreadsIdle /\ InitExtIdle /\ loop = TRUE

LoopSubs == {"on_change", "async_subscriber"}

NextLoop ==
    \/ \E r \in Refs, v \in Values : Write(r, v)
    \/ \E r \in Refs, s \in LoopSubs : Subscribe(r, s)
    \/ \E r \in Refs, s \in LoopSubs : Unsubscribe(r, s)
    \/ \E e \in Effects : Invoke(e)
    \/ \E e \in Effects : AwaitEffect(e)
    \/ \E e \in Effects : Stop(e)
    \/ Sleep
    \/ Resume
    \/ RunHandle
    \/ RunTask

SpecLoop == InitLoop /\ [][NextLoop]_vars

\* SpecThreads: the workers of test_thread_safety on a Ref initialised to 0.
InitThreads ==
    /\ value = [r \in Refs |-> 0]
    /\ subscribers = [r \in Refs |-> {}]
    /\ InitMain
    /\ loop = FALSE
    /\ t_pc = [t \in Threads |-> "read"]
    /\ t_loop \in [Threads -> BOOLEAN]
    /\ t_current = [t \in Threads |-> 0]
    /\ t_old = [t \in Threads |-> 0]
    /\ t_left = [t \in Threads |-> Steps]
    /\ t_done = [t \in Threads |-> 0]
    /\ InitExtIdle

NextThreads ==
    \E t \in Threads : TRead(t) \/ TCompare(t) \/ TOld(t) \/ TStore(t) \/ TNotify(t)

SpecThreads == InitThreads /\ [][NextThreads]_vars

\* SpecWriters: concurrent writers of one Ref that on_change observes.
InitWriters ==
    /\ value = [r \in Refs |-> 0]
    /\ subscribers = [r \in Refs |-> IF r = Counter THEN {"on_change"} ELSE {}]
    /\ InitMain
    /\ InitThreadsIdle
    /\ loop = FALSE
    /\ w_pc = [t \in Threads |-> "compare"]
    /\ w_new = [t \in Threads |-> 0]
    /\ w_old = [t \in Threads |-> 0]
    /\ w_left = [t \in Threads |-> Steps]
    /\ notified = <<>>
    /\ proxy_subscribers = <<>>
    /\ ready_for = <<>>
    /\ InitRecordIdle
    /\ InitOtherIdle

NextWriters ==
    \/ \E t \in Threads, v \in Values : WCompare(t, v)
    \/ \E t \in Threads : WOld(t)
    \/ \E t \in Threads : WStore(t)
    \/ \E t \in Threads : WNotify(t)

SpecWriters == InitWriters /\ [][NextWriters]_vars

\* SpecProxy: a program that built a ReadOnlyRef on the Ref Counter, with or
\* without a running event loop.  Its effects read the proxy, which is the
\* getter of the base.
InitProxy ==
    /\ value = [r \in Refs |-> 0]
    /\ subscribers = [r \in Refs |-> IF r = Counter THEN {Relay} ELSE {}]
    /\ InitMain
    /\ signature = "noargs"
    /\ InitThreadsIdle
    /\ InitExtIdle
    /\ loop \in BOOLEAN

NextProxy ==
    \/ \E v \in Values : Write(Counter, v)
    \/ \E s \in LoopSubs : Subscribe(Counter, s)
    \/ \E s \in LoopSubs : ProxySubscribe(s)
    \/ \E s \in LoopSubs : ProxyUnsubscribe(s)
    \/ ProxyRead
    \/ \E v \in Values : ProxyAssign(v)
    \/ \E e \in Effects : Invoke(e)
    \/ \E e \in Effects : AwaitEffect(e)
    \/ Sleep
    \/ Resume
    \/ RunHandle
    \/ RunTask

SpecProxy == InitProxy /\ [][NextProxy]_vars

\* SpecRecord: a program that works on the record built from
\* {"a": x, "b": {"c": y}} and on a read-only view of it, with or without a
\* running event loop.
RawSubs == {"on_change", "failing"}

InitRecord ==
    /\ value = [r \in Refs |-> 0]
    /\ subscribers = [r \in Refs |-> {}]
    /\ is_active = [e \in Effects |-> TRUE]
    /\ signature = "noargs"
    /\ ctl = "main"
    /\ thread_effect = None
    /\ task_effect = None
    /\ ready = <<>>
    /\ last = Did("init", 0, "", NoResult, NoResult, FALSE, {}, Nothing, "none")
    /\ reads = NoReads
    /\ stopped = {}
    /\ InitThreadsIdle
    /\ InitWritersIdle
    /\ proxy_subscribers = <<>>
    /\ ready_for = <<>>
    /\ loop \in BOOLEAN
    /\ \E x \in Values, y \in Values :
         /\ rd_value = <<Leaf(x), Nested(2), Leaf(y)>>
         /\ rd_given = [a |-> Leaf(x), b |-> Plain([c |-> Leaf(y)])]
    /\ rd_subs = <<{}, {}, {}>>
    /\ rd_table = <<[a |-> 1, b |-> 2], [c |-> 3]>>
    /\ rd_out = NoResult
    /\ rd_raw = 0
    /\ rd_moved = FALSE
    /\ view_own = {}
    /\ InitActionsIdle /\ InitSchemaIdle /\ InitNestedIdle /\ InitLockIdle /\ InitRoundIdle
    /\ relays = [c \in 1..MaxHeap |-> 0]

NextRecord ==
    \/ \E path \in {"a", "b.c"}, v \in Values : RdSetAttr(path, v)
    \/ \E m \in FlatMappings : RdSetMapping(m)
    \/ \E path \in {"a", "b", "b.c"} : RdRead(path)
    \/ RdGetRawRef
    \/ \E s \in RawSubs : RdSubscribeRaw(s)
    \/ \E v \in Values : RdRawWrite(v)
    \/ RdToDict
    \/ \E name \in ViewNames, v \in Values : ViewSetAttr(name, v)
    \/ \E key \in ViewNames, v \in Values : ViewSetItem(key, v)
    \/ \E name \in ViewReadKeys : ViewGetAttr(name)
    \/ \E key \in ViewReadKeys : ViewGetItem(key)

SpecRecord == InitRecord /\ [][NextRecord]_vars

\* SpecView: a program that converts the record with to_dict(), changes the
\* mapping it got, and reads and writes the record's keys.
NextView ==
    \/ \E path \in {"a", "b.c"}, v \in Values : RdSetAttr(path, v)
    \/ RdGetRawRef
    \/ \E s \in RawSubs : RdSubscribeRaw(s)
    \/ RdToDict
    \/ ViewToDict
    \/ \E path \in {"a", "b.c"}, v \in Values : OutSetItem(path, v)
    \/ \E name \in ViewReadKeys : ViewGetAttr(name)
    \/ \E key \in ViewReadKeys : ViewGetItem(key)
    \/ \E e \in Effects, key \in ViewReadKeys : ViewEffect(e, key)

SpecView == InitRecord /\ [][NextView]_vars

\* SpecKeys: a program that works on a record with the keys show_age and
\* age.  record.k = v is the setter of the container of k, and an effect
\* that reads record.k reads through the getter of that container; nothing
\* is subscribed by hand.
InitKeys == InitRefs /\ InitMain /\ InitThreadsIdle /\ InitExtIdle /\ loop \in BOOLEAN

NextKeys ==
    \/ \E r \in Refs, v \in Values : Write(r, v)
    \/ \E e \in Effects : Invoke(e)
    \/ \E e \in Effects : Stop(e)

SpecKeys == InitKeys /\ [][NextKeys]_vars

\* SpecActions: a program that registers actions on two views of one
\* record and calls them through executors.
InitActions ==
    /\ InitRefs /\ InitMain /\ InitThreadsIdle
    /\ InitWritersIdle /\ proxy_subscribers = <<>> /\ ready_for = <<>> /\ InitRecordIdle
    /\ value = [r \in Refs |-> 0]
    /\ signature = "noargs"
    /\ loop = FALSE
    /\ allowed_actions = [w \in Views |-> [n \in ActionNames |-> None]]
    /\ executor = None
    /\ exec_seen = [n \in ActionNames |-> None]
    /\ act = ActDid("init", None, "", None, NoArgs, None, NoValue, "none", <<>>)
    /\ InitSchemaIdle
    /\ InitNestedIdle
    /\ InitLockIdle
    /\ InitRoundIdle /\ InitViewIdle

NextActions ==
    \/ \E w \in Views, fn \in Funcs : Register(w, fn)
    \/ \E w \in Views, fn \in Funcs : RegisterNamed(w, "custom", fn)
    \/ \E w \in Views, x \in NotInvocable : RegisterInvalid(w, x)
    \/ \E w \in Views : GetExecutor(w)
    \/ \E n \in ActionNames, a \in ArgChoices : ExecCall(n, a)

SpecActions == InitActions /\ [][NextActions]_vars

\* SpecSchema: a program that infers the descriptors of two mappings, each
\* with the default cache or with the cache it keeps.
InitSchema ==
    /\ InitRefs /\ InitMain /\ InitThreadsIdle
    /\ InitWritersIdle /\ proxy_subscribers = <<>> /\ ready_for = <<>> /\ InitRecordIdle
    /\ value = [r \in Refs |-> 0]
    /\ signature = "noargs"
    /\ loop = FALSE
    /\ InitActionsIdle
    /\ InitSchemaIdle
    /\ InitNestedIdle
    /\ InitLockIdle
    /\ InitRoundIdle /\ InitViewIdle

NextSchema ==
    \/ \E data \in SchemaInputs : InferDefault(data)
    \/ \E data \in SchemaInputs : InferWithCache(data)

SpecSchema == InitSchema /\ [][NextSchema]_vars

\* SpecNested: two threads that invoke the effects outer and inner, nested or
\* not, read Refs inside and outside the bodies, and let the bodies return
\* or raise.
InitNested ==
    /\ InitRefs /\ InitMain /\ InitThreadsIdle
    /\ InitWritersIdle /\ proxy_subscribers = <<>> /\ ready_for = <<>> /\ InitRecordIdle
    /\ value = [r \in Refs |-> 0]
    /\ signature = "noargs"
    /\ loop = FALSE
    /\ InitActionsIdle
    /\ InitSchemaIdle
    /\ n_mode \in [NestedThreads -> Modes]
    /\ n_slot = [t \in NestedThreads |-> None]
    /\ n_ctx = [t \in NestedThreads |-> None]
    /\ n_stack = [t \in NestedThreads |-> <<>>]
    /\ n_exc = [t \in NestedThreads |-> "none"]
    /\ n_subs = [r \in Refs |-> {}]
    /\ n_last = NDid("init", None, None, None, "none")
    /\ InitLockIdle
    /\ InitRoundIdle /\ InitViewIdle

NextNested ==
    \/ \E t \in NestedThreads, e \in NestedEffects, is_async \in BOOLEAN : NInvoke(t, e, is_async)
    \/ \E t \in NestedThreads, r \in Refs : NRead(t, r)
    \/ \E t \in NestedThreads : NReturn(t)
    \/ \E t \in NestedThreads : NFail(t)
    \/ \E t \in NestedThreads : NUnwind(t)
    \/ \E t \in NestedThreads : NCatch(t)

SpecNested == InitNested /\ [][NextNested]_vars

\* SpecLock: two threads, each of which writes one Ref once; the
\* subscribers registered at the start are the same for both Refs.
InitLock ==
    /\ InitRefs /\ InitMain /\ InitThreadsIdle
    /\ InitWritersIdle /\ proxy_subscribers = <<>> /\ ready_for = <<>> /\ InitRecordIdle
    /\ value = [r \in Refs |-> 0]
    /\ signature = "noargs"
    /\ loop = FALSE
    /\ InitActionsIdle
    /\ InitSchemaIdle
    /\ InitNestedIdle
    /\ InitRoundIdle /\ InitViewIdle
    /\ l_mode \in {"none", "handle"}
    /\ l_value = [r \in Refs |-> 0]
    /\ \E S \in StartSets : l_subs = [r \in Refs |-> S]
    /\ l_lock = [r \in Refs |-> None]
    /\ l_stack = [t \in LockThreads |-> <<>>]
    /\ l_done = [t \in LockThreads |-> FALSE]

NextLock ==
    \/ \E t \in LockThreads, r \in Refs, v \in Values : LWrite(t, r, v)
    \/ \E t \in LockThreads : LAcquire(t)
    \/ \E t \in LockThreads : LSnapshot(t)
    \/ \E t \in LockThreads : LUpdate(t)
    \/ \E t \in LockThreads, q \in Refs : LCallSubscribes(t, q)
    \/ \E t \in LockThreads, q \in Refs : LCallUnsubscribes(t, q)
    \/ \E t \in LockThreads, q \in Refs : LCallReads(t, q)
    \/ \E t \in LockThreads, q \in Refs : LCallWrites(t, q)
    \/ \E t \in LockThreads : LReturn(t)

SpecLock == InitLock /\ [][NextLock]_vars

\* SpecRound: one thread, one write by the program, re-entrant subscribers;
\* the subscribers registered at the start are the same for both Refs.
InitRound ==
    /\ InitRefs /\ InitMain /\ InitThreadsIdle
    /\ InitWritersIdle /\ proxy_subscribers = <<>> /\ ready_for = <<>> /\ InitRecordIdle
    /\ value = [r \in Refs |-> 0]
    /\ signature = "noargs"
    /\ loop = FALSE
    /\ InitActionsIdle /\ InitSchemaIdle /\ InitNestedIdle /\ InitLockIdle /\ InitViewIdle
    /\ r_value \in [Refs -> Values]
    /\ \E S \in SUBSET (RoundCallbacks \ {"late"}) : r_subs = [r \in Refs |-> S]
    /\ r_stack = <<>>
    /\ r_log = <<>>

NextRound ==
    \/ \E r \in Refs, v \in Values : RWrite(r, v)
    \/ RCallRemover
    \/ RCallAdder
    \/ RCallFlips
    \/ \E callback \in {"plain", "late"} : RCallPlain(callback)
    \/ RReturn

SpecRound == InitRound /\ [][NextRound]_vars

\* ------------------------------------------------------------ the claims
SyncSubscribers == {s \in Subs : ~IsCoroutineFunction(s)}
WroteNew == last.op = "write" /\ last.new # last.old
WroteSame == last.op = "write" /\ last.new = last.old
WriteStep(r) == last'.op = "write" /\ last'.ref = r /\ last'.new # last'.old
AllEnded == \A t \in Threads : t_pc[t] \in {"done", "dead"}

\* C1: a write of the value the Ref already holds calls no subscriber and
\* leaves the value as it is; a write of a different value v over o calls
\* every registered synchronous subscriber exactly once, with (v, o), and
\* calls no subscriber that is not registered.
C1_WriteNotifiesEachOnce ==
    /\ WroteSame => /\ \A s \in Subs : last.calls[s] = <<>>
                    /\ value[last.ref] = last.old
    /\ WroteNew => \A s \in SyncSubscribers :
                      last.calls[s] = IF s \in last.snapshot
                                      THEN << <<last.new, last.old>> >> ELSE <<>>

C1_Witness == WroteNew /\ {"on_change", "sync_effect"} \subseteq last.snapshot

\* C2: once a synchronous effect wrapping a function without parameters has
\* run and read the Ref Counter, every value-changing write to Counter runs
\* the body of the effect exactly once, within the write.
C2_EffectRerunsOnWrite ==
    [][\A e \in SyncEffects :
         (signature = "noargs" /\ is_active[e] /\ Counter \in reads[e] /\ WriteStep(Counter))
            => last'.ran[e] = 1]_vars

\* C3: an effect that read show_age in its most recent run is run again by
\* every change of show_age, and an effect whose most recent run found
\* show_age false, and so did not read age, is not run by a change of age.
C3_DependenciesPerRun ==
    [][\A e \in SyncEffects :
         is_active[e] =>
           /\ ("show_age" \in reads[e] /\ WriteStep("show_age")) => last'.ran[e] = 1
           /\ (reads[e] = {"show_age"} /\ WriteStep("age")) => last'.ran[e] = 0]_vars

\* C4: once stop() has been called on an effect its flag stays false, no
\* manual invocation and no invocation by a notification enters the body
\* of its function, and a further stop() raises nothing.
C4_StopIsTerminal ==
    \A e \in stopped :
       /\ ~is_active[e]
       /\ last.op \in {"write", "invoke", "await", "handle"} => last.ran[e] = 0
       /\ last.op = "stop" => last.raised = "none"

C4_Witness == \E e \in stopped : last.op = "write" /\ Len(last.calls[e]) = 1

\* C5: when every worker has ended, the Ref holds the total number of
\* increments: no increment is lost.
C5_NoLostIncrement == AllEnded => value[Counter] = NumThreads * Steps

\* C6: inside a running event loop the body of an asynchronous subscriber is
\* never entered by the setter, nor by any other operation of the main
\* task: it is entered only by a task of the loop, after the main task has
\* yielded.
C6_AsyncNeverInline ==
    /\ last.op = "write" => \A s \in AsyncCallbacks \cup AsyncEffects : last.ran[s] = 0
    /\ \A s \in AsyncCallbacks : last.ran[s] > 0 => last.op = "task" /\ ctl = "loop"

C6_Witness ==
    WroteNew /\ "async_subscriber" \in last.snapshot /\ ready # <<>> /\ ctl = "main"

\* C7: once an asynchronous effect has been awaited inside the loop and read
\* Counter, a value-changing write to Counter leaves in the loop's queue the
\* callback or the task that will run the body of the effect once more.
C7_AsyncEffectRerun ==
    [][\A e \in AsyncEffects :
         (loop /\ is_active[e] /\ Counter \in reads[e] /\ WriteStep(Counter))
            => \E i \in 1..Len(ready') : ready'[i].target = e]_vars

\* C8: a synchronous effect invoked inside an asynchronous task that reads
\* Counter is a subscriber of Counter afterwards, and a later value-changing
\* write to Counter runs its body.
C8_SyncEffectInTaskRegisters ==
    [][\A e \in SyncEffects :
         /\ (loop /\ last'.op = "invoke" /\ Counter \in last'.read[e])
               => e \in subscribers'[Counter]
         /\ (loop /\ signature = "varargs" /\ is_active[e] /\ Counter \in reads[e]
                  /\ WriteStep(Counter))
               => last'.ran[e] = 1]_vars

\* C9: when the call of a synchronous subscriber raises during the
\* notification of a write, nothing is raised to the writer, the Ref holds
\* the new value and every synchronous subscriber of the round has been
\* called exactly once.
C9_RaisingSubscriberIsolated ==
    (WroteNew /\ last.failed # {}) =>
       /\ last.raised = "none"
       /\ value[last.ref] = last.new
       /\ \A s \in last.snapshot \cap SyncSubscribers : Len(last.calls[s]) = 1

C9_Witness == WroteNew /\ "failing" \in last.failed /\ "on_change" \in last.snapshot

\* C10: when a value-changing call of the setter returns, every synchronous
\* subscriber that was registered when the notification started has been
\* called.
C10_AllSyncCalledBeforeReturn ==
    WroteNew => \A s \in SyncSubscribers :
                   s \in last.snapshot => Len(last.calls[s]) >= 1

C10_Witness ==
    WroteNew /\ Cardinality(last.snapshot \cap SyncSubscribers) >= 2
             /\ \A s \in last.snapshot : Len(last.calls[s]) = 1

\* C11: no subscriber receives two consecutive notifications that carry the
\* same new value, also when several threads write the Ref concurrently.
C11_NoRepeatedNewValue ==
    \A i \in 1..(Len(notified) - 1) : notified[i][1] # notified[i + 1][1]

\* C12: unsubscribe(cb) raises nothing and removes cb and nothing else from
\* the subscriber set, which it leaves as it was when cb is not registered;
\* and a value-changing write calls no callback that is not in the
\* subscriber set when the write starts, so that cb is not called again.
C12_UnsubscribeRemoves ==
    [][/\ last'.op = "unsubscribe" =>
            /\ last'.raised = "none"
            /\ subscribers'[last'.ref] = subscribers[last'.ref] \ {last'.target}
            /\ \A r \in Refs \ {last'.ref} : subscribers'[r] = subscribers[r]
       /\ \A r \in Refs, s \in Subs :
            (s \notin subscribers[r] /\ WriteStep(r)) => last'.calls[s] = <<>>]_vars

C12_Witness ==
    /\ last.op = "unsubscribe"
    /\ last.target \in last.snapshot
    /\ subscribers[last.ref] # {}
    /\ last.target \notin subscribers[last.ref]

\* C13: a read of the proxy's value raises nothing and yields the value the
\* base holds at that moment; an assignment to the proxy's value raises
\* AttributeError and leaves the value of the base as it was.
C13_ProxyReadsBase ==
    /\ last.op = "proxy_read" => last.raised = "none" /\ last.new = value[Counter]
    /\ last.op = "proxy_assign" =>
          last.raised = "AttributeError" /\ value[Counter] = last.old

\* C14: a value-changing write to the base calls every synchronous
\* subscriber of the proxy once with (new, old) on behalf of the proxy (a
\* callback that is also subscribed to the base is called once more, by the
\* base); a callback which that write handed to the event loop does not
\* call them again; and subscribing to the proxy leaves the subscriber set
\* of the base as it was.
C14_ProxyNotifiedOnce ==
    [][/\ (WriteStep(Counter) /\ Relay \in subscribers[Counter]) =>
            \A s \in CalledForProxy(Counter) :
               last'.calls[s] = IF s \in subscribers[Counter]
                                THEN << <<last'.new, last'.old>>, <<last'.new, last'.old>> >>
                                ELSE << <<last'.new, last'.old>> >>
       /\ last'.op = "handle" => \A s \in Head(ready_for) : last'.calls[s] = <<>>
       /\ last'.op = "proxy_subscribe" =>
            /\ last'.target \in Range(proxy_subscribers')
            /\ subscribers' = subscribers]_vars

\* C15: a run of an effect that reads the proxy's value leaves the effect in
\* the subscriber set of the base and not in the proxy's, and every later
\* value-changing write to the base runs the body of a synchronous effect
\* once more.
C15_EffectOnProxyTracksBase ==
    [][\A e \in Effects :
         /\ (Relay \in subscribers[Counter] /\ last'.op \in {"invoke", "await"}
                /\ last'.target = e /\ Counter \in last'.read[e])
               => (e \in subscribers'[Counter] /\ e \notin Range(proxy_subscribers'))
         /\ (e \in SyncEffects /\ Relay \in subscribers[Counter] /\ is_active[e]
                /\ Counter \in reads[e] /\ WriteStep(Counter))
               => last'.ran[e] = 1]_vars
\* C16: while key b is not reassigned, get_raw_ref("b.c") returns the
\* container it returned before; the statement record.b.c = v with a new
\* value completes and calls every callback subscribed on that container
\* once with (new, old); and reading record.b.c returns the value that
\* container holds, whoever wrote it.
C16_RawRefIsTheContainer ==
    [][/\ (last'.op = "rd_get_raw_ref" /\ rd_raw # 0 /\ ~rd_moved) =>
            (last'.raised = "none" /\ rd_raw' = rd_raw)
       /\ (last'.op = "rd_set" /\ last'.target = "b.c" /\ rd_raw # 0 /\ ~rd_moved
              /\ last'.new # last'.old) =>
            /\ last'.raised = "none"
            /\ last'.ref = rd_raw
            /\ \A s \in rd_subs[rd_raw] : last'.calls[s] = << <<last'.new, last'.old>> >>
       /\ (last'.op = "rd_read" /\ last'.target = "b.c" /\ rd_raw # 0 /\ ~rd_moved) =>
            (last'.raised = "none" /\ rd_out' = rd_value[rd_raw])]_vars

\* C17: to_dict() returns the mapping the record was built from, with the
\* leaves replaced that the program has assigned since, as plain mappings
\* and scalars only.
C17_ToDictRoundTrip ==
    last.op = "rd_to_dict" => rd_out = Plain(rd_given)


\* C18: the statement record.b = m for a plain mapping m completes and
\* leaves in the container of b a record that did not exist before, whose
\* keys are the keys of m, each with a new container holding the value m
\* gives it, also when m has the content the old record had; and reading
\* record.b returns a record.
C18_MappingReplaces ==
    [][/\ last'.op = "rd_set_mapping" =>
            LET held == rd_value'[rd_table[Root]["b"]]
                m == rd_given'["b"].v
            IN /\ last'.raised = "none"
               /\ held.kind = "record"
               /\ held.v \notin 1..Len(rd_table)
               /\ DOMAIN rd_table'[held.v] = DOMAIN m
               /\ \A k \in DOMAIN m :
                    /\ rd_table'[held.v][k] \notin 1..Len(rd_value)
                    /\ rd_value'[rd_table'[held.v][k]] = m[k]
       /\ (last'.op = "rd_read" /\ last'.target = "b") =>
            (last'.raised = "none" /\ rd_out'.kind = "record")]_vars

\* C19: a value-changing write to key K runs the body of every active
\* effect that read K in a previous run exactly once, and runs the body of
\* no effect that did not.  With nothing subscribed by hand, an effect read K
\* in a previous run when K is among the keys its most recent run read or
\* the effect is a subscriber of the container of K.
C19_WriteRunsReadersOnly ==
    [][\A r \in Refs, e \in SyncEffects :
         (WriteStep(r) /\ is_active[e]) =>
            last'.ran[e] = IF r \in reads[e] \/ e \in subscribers[r] THEN 1 ELSE 0]_vars

\* C20: an attribute write on the view with a name that does not start
\* with '_' raises AttributeError, every item write on the view raises
\* TypeError, also with a name that starts with '_', and sets nothing on
\* the view; no write on the view changes a key, a value or a subscriber
\* set of the record.
C20_ViewWritesRejected ==
    [][/\ (last'.op = "view_setattr" /\ ~StartsWithUnderscore(last'.target)) =>
            (last'.raised = "AttributeError" /\ view_own' = view_own)
       /\ last'.op = "view_setitem" =>
            (last'.raised = "TypeError" /\ view_own' = view_own)
       /\ last'.op \in {"view_setattr", "view_setitem"} =>
            (rd_value' = rd_value /\ rd_table' = rd_table /\ rd_subs' = rd_subs)]_vars

C20_Witness ==
    /\ last.op = "view_setitem"
    /\ last.target = "_note"
    /\ last.raised = "TypeError"
    /\ view_own # {}

\* C21: the action table belongs to one view.  A registration through a
\* view changes the table of no other view, also when both views wrap the
\* same record, and an executor of a view that has no action of the name
\* asked for raises AttributeError, whatever the other views registered.
C21_TablesPerView ==
    [][/\ \A w \in Views :
            (act'.op \in {"register", "register_named"} /\ act'.view # w) =>
                allowed_actions'[w] = allowed_actions[w]
       /\ (act'.op = "call" /\ allowed_actions'[act'.view][act'.name] = None) =>
                (act'.raised = "AttributeError" /\ act'.invoked = <<>>)]_vars

C21_Witness ==
    /\ act.op = "call" /\ act.view = "V2" /\ act.name = "f"
    /\ allowed_actions["V1"]["f"] = "f"
    /\ allowed_actions["V2"]["f"] = None
    /\ act.raised = "AttributeError"

\* C23: view(f) returns f and stores f under f's own name, so that
\* view().f(...) returns what f returns; view("custom")(f) returns f and
\* stores f under "custom" and under no other name, so that f is called as
\* view().custom(...) and not under its own name.
C23_RegisterThenInvoke ==
    [][/\ (act'.op = "register" /\ act'.raised = "none") =>
            /\ act'.returned = act'.func
            /\ allowed_actions'[act'.view][FuncName(act'.func)] = act'.func
       /\ act'.op = "register_named" =>
            /\ act'.returned = act'.func
            /\ allowed_actions'[act'.view][act'.name] = act'.func
            /\ \A n \in ActionNames \ {act'.name} :
                   allowed_actions'[act'.view][n] = allowed_actions[act'.view][n]
       /\ (act'.op = "call" /\ allowed_actions[executor][act'.name] # None) =>
            LET fn == allowed_actions[executor][act'.name]
            IN /\ act'.result = Apply(fn, act'.args).ret
               /\ act'.raised = Apply(fn, act'.args).exc]_vars

C23_Witness ==
    /\ act.op = "call" /\ act.name = "custom" /\ act.func = "f"
    /\ act.result.by = "f"
    /\ allowed_actions[act.view]["f"] = None

\* C24: a registration that is rejected leaves every action table as it
\* was: view(g) for an anonymous function g raises TypeError, and view(x)
\* for x that is neither invocable, nor text, nor None raises TypeError.
C24_RejectedRegistration ==
    [][/\ (act'.op = "register" /\ act'.name = "<lambda>") =>
            (act'.raised = "TypeError" /\ allowed_actions' = allowed_actions)
       /\ act'.op = "register_invalid" =>
            (act'.raised = "TypeError" /\ allowed_actions' = allowed_actions)
       /\ (act'.op \in {"register", "register_invalid"} /\ act'.raised # "none") =>
            allowed_actions' = allowed_actions]_vars

C24_Witness ==
    /\ act.op = "register" /\ act.func = "lambda" /\ act.raised = "TypeError"
    /\ \A n \in ActionNames : allowed_actions[act.view][n] = None
    /\ \E w \in Views : allowed_actions[w]["f"] = "f"

\* C25: a call of a registered action through the executor invokes the
\* registered function once, with exactly the positional and keyword
\* arguments of the call, and returns its result or raises its exception;
\* a call of a name that is not registered raises AttributeError and
\* invokes nothing.
C25_ExecutorPassesThrough ==
    act.op = "call" =>
        LET fn == allowed_actions[act.view][act.name]
        IN IF fn = None
           THEN act.raised = "AttributeError" /\ act.invoked = <<>>
           ELSE /\ act.invoked = << <<fn, act.args>> >>
                /\ act.result = Apply(fn, act.args).ret
                /\ act.raised = Apply(fn, act.args).exc

C25_Witness ==
    /\ act.op = "call" /\ act.func = "f"
    /\ act.args.pos # <<>> /\ act.args.kw # {}
    /\ act.result = [by |-> "f", args |-> act.args]

\* C22: a read of a key the record does not have through the view raises
\* AttributeError naming the key when it is an attribute read and KeyError
\* naming the key when it is an item read, and changes neither the view nor
\* the record: no key, value, subscriber set or attribute of the view.
C22_AbsentKeyErrors ==
    [][\A key \in ViewReadKeys :
         (last'.op \in {"view_getattr", "view_getitem"} /\ last'.target = key
            /\ key \notin DOMAIN rd_table[Root]) =>
            /\ last'.raised = IF last'.op = "view_getattr" THEN "AttributeError" ELSE "KeyError"
            /\ rd_out' = Message(last'.raised, key)
            /\ rd_value' = rd_value /\ rd_table' = rd_table /\ rd_subs' = rd_subs
            /\ view_own' = view_own /\ allowed_actions' = allowed_actions]_vars

C22_Witness ==
    /\ last.op = "view_getitem" /\ last.target = "nonexistent"
    /\ last.raised = "KeyError"
    /\ rd_out = Message("KeyError", "nonexistent")
    /\ view_own # {}

\* C26 as stated: two calls of infer_schema_from_data on mappings of the
\* same shape (same keys in any order, same nested shapes, same leaf types,
\* any leaf data) return the same descriptor instance, and two calls on
\* mappings that differ in the type of the nested leaf return different
\* descriptors.
SameShape(x, y) ==
    /\ {x.items[i].k : i \in 1..Len(x.items)} = {y.items[i].k : i \in 1..Len(y.items)}
    /\ ItemAt(x.items, "a").v.t = ItemAt(y.items, "a").v.t
    /\ ItemAt(ItemAt(x.items, "b").v.items, "c").v.t
          = ItemAt(ItemAt(y.items, "b").v.items, "c").v.t

C27_SubscribedOnce ==
    [][/\ (last'.op = "subscribe" /\ last'.target \in subscribers[last'.ref]) =>
            subscribers' = subscribers
       /\ \A r \in Refs :
            WriteStep(r) =>
               /\ \A s \in SyncSubscribers \cap subscribers[r] : Len(last'.calls[s]) = 1
               /\ \A s \in SyncSubscribers : Len(last'.calls[s]) <= 1
               /\ \A e \in SyncEffects :
                     (is_active[e] /\ r \in reads[e]) => Len(last'.calls[e]) = 1]_vars

\* C28: when an invocation of an effect ends, by return or by exception,
\* the active-effect slots hold what they held when it began, and they are
\* empty when no invocation is left on the thread; a read in the body of an
\* effect makes that effect a subscriber of the Ref: with outer invoking
\* inner, a read inside inner registers inner and a read by outer after
\* inner has ended registers outer.
C28_SlotRestored ==
    [][/\ \A t \in NestedThreads :
            /\ Len(n_stack'[t]) < Len(n_stack[t]) =>
                   <<n_slot'[t], n_ctx'[t]>> = Last(n_stack[t]).prior
            /\ n_stack'[t] = <<>> => (n_slot'[t] = None /\ n_ctx'[t] = None)
       /\ (n_last'.op = "read" /\ n_last'.e # None) => n_last'.e \in n_subs'[n_last'.r]]_vars

\* C29: the active-effect slot belongs to one thread.  A read on a thread
\* adds to the subscriber set of the Ref no effect that is not running on
\* that thread: while an effect runs on T1, a read on T2, where no effect is
\* running, adds nothing.
C29_SlotPerThread ==
    [][\A t \in NestedThreads, r \in Refs :
         (n_last'.op = "read" /\ n_last'.t = t /\ n_last'.r = r) =>
            /\ n_subs'[r] \ n_subs[r] \subseteq OnStack(t)
            /\ \A q \in Refs \ {r} : n_subs'[q] = n_subs[q]]_vars

C29_Witness ==
    /\ n_last = NDid("read", "T2", None, "show_age", "none")
    /\ n_stack["T2"] = <<>>
    /\ n_slot["T1"] = "outer"
    /\ n_subs["show_age"] = {}

\* C30: no subscriber is called while the lock of the Ref is held: a thread
\* holds the lock of a Ref only at the statement inside the with block, never
\* while it calls subscribers.  So no deadlock is reachable: a thread inside
\* a write, in a subscriber that subscribes, unsubscribes, reads or writes
\* the same or another Ref, can take its next step, or waits for a lock
\* whose holder is another thread that can take its next step.
C30_NoCallUnderLock ==
    /\ \A r \in Refs, t \in LockThreads :
          l_lock[r] = t => (l_stack[t] # <<>> /\ LTop(t).phase = "locked" /\ LTop(t).r = r)
    /\ \A t \in LockThreads :
          l_stack[t] # <<>> =>
             \/ ENABLED LockStep(t)
             \/ \E u \in LockThreads \ {t} :
                   l_lock[LTop(t).r] = u /\ ENABLED LockStep(u)

C30_Witness ==
    /\ Len(l_stack["T1"]) = 2
    /\ l_stack["T1"][1].kind = "notify" /\ l_stack["T1"][1].phase = "calling"
    /\ l_stack["T1"][2].kind = "subscribe" /\ l_stack["T1"][2].phase = "locked"
    /\ l_stack["T1"][2].r = l_stack["T1"][1].r
    /\ l_stack["T2"] # <<>> /\ LTop("T2").phase = "acquire" /\ LTop("T2").r = LTop("T1").r

\* ------------------------------------------------------------------ C31
\* C31: a value-changing write to a Ref that has an asynchronous subscriber,
\* made while no event loop runs in the writing thread, completes: the new
\* value is stored, every synchronous subscriber of the snapshot is called,
\* nothing is raised to the writer, and the body of the asynchronous
\* subscriber is neither run nor scheduled for that change.
C31_NoLoopAsyncSkipped ==
    (WroteNew /\ ~loop /\ last.snapshot \cap AsyncCallbacks # {}) =>
        /\ value[last.ref] = last.new
        /\ last.raised = "none"
        /\ \A s \in SyncSubscribers \cap last.snapshot :
              last.calls[s] = << <<last.new, last.old>> >>
        /\ \A s \in AsyncCallbacks : last.ran[s] = 0 /\ last.calls[s] = <<>>
        /\ ready = <<>>

C31_Witness ==
    /\ WroteNew /\ ~loop
    /\ {"async_subscriber", "on_change", "failing"} \subseteq last.snapshot
    /\ last.ran["on_change"] = 1

\* ------------------------------------------------------------------ C32
\* C32: stop() changes only the effect's own active flag: the value and the
\* subscriber set of every Ref are unchanged by it, so a stopped effect stays
\* a member of each subscriber set it was in; it is still called on later
\* value-changing writes, where the call does nothing.
C32_StopOnlyClearsFlag ==
    [][/\ last'.op = "stop" =>
            /\ value' = value
            /\ subscribers' = subscribers
            /\ is_active' = [is_active EXCEPT ![last'.target] = FALSE]
            /\ UNCHANGED <<signature, ready, thread_effect, task_effect>>
       /\ \A r \in Refs : WriteStep(r) =>
            \A e \in stopped \cap subscribers[r] :
               /\ e \in subscribers'[r]
               /\ last'.calls[e] = << <<last'.new, last'.old>> >>
               /\ last'.ran[e] = 0 /\ last'.read[e] = {}
               /\ e \notin last'.failed]_vars

C32_Witness ==
    \E e \in stopped :
       /\ WroteNew /\ e \in last.snapshot /\ e \in subscribers[last.ref]
       /\ Len(last.calls[e]) = 1 /\ last.ran[e] = 0

C34_ToDictDecoupled ==
    [][/\ last'.op = "out_setitem" =>
            /\ UNCHANGED <<rd_value, rd_subs, rd_table>>
            /\ ~last'.changed /\ last'.raised = "none"
            /\ \A s \in Subs : last'.calls[s] = <<>>
            /\ rd_out' # rd_out \/ last'.new = last'.old
       /\ last'.op \in {"rd_to_dict", "view_to_dict"} =>
            /\ rd_out'.kind = "map"
            /\ \A k \in DOMAIN rd_out'.v : rd_out'.v[k].kind \in {"leaf", "map"}]_vars

C34_Witness ==
    /\ last.op = "out_setitem" /\ last.target = "b.c"
    /\ rd_subs[rd_table[NodeB]["c"]] # {}
    /\ rd_out.v["b"].v["c"] # rd_value[rd_table[NodeB]["c"]]
    /\ rd_out.v["a"] # rd_value[rd_table[Root]["a"]]

\* ------------------------------------------------------------------ C35
\* C35: a notification round works on the snapshot taken at its start: every
\* subscriber it calls is a member of the snapshot and is called once, so a
\* subscriber added during the round is not called in that round; and when
\* the round has returned every member of the snapshot has been called, also
\* one that another subscriber had unsubscribed before its turn.
RoundEnded(i) == \A k \in 1..Len(r_stack) : r_stack[k].round # i

C35_RoundUsesSnapshot ==
    \A i \in 1..Len(r_log) :
       /\ Called(i) \subseteq r_log[i].snap
       /\ Cardinality(Called(i)) = Len(r_log[i].calls)
       /\ RoundEnded(i) => Called(i) = r_log[i].snap

C35_Witness ==
    /\ r_stack = <<>> /\ r_log # <<>>
    /\ {"remover", "adder", "plain"} \subseteq r_log[1].snap
    /\ \E j \in 1..Len(r_log[1].calls) :
          r_log[1].calls[j].cb = "plain" /\ ~r_log[1].calls[j].member
    /\ "late" \in r_subs[r_log[1].r] \ Called(1)

\* ------------------------------------------------------------------ C36
\* C36: whenever a synchronous subscriber is called with (new, old), the
\* value the Ref holds at that moment is new, in every single-threaded
\* execution, those with a subscriber that writes the same Ref during the
\* round included.
C36_ValueIsNewAtCall ==
    \A i \in 1..Len(r_log) : \A j \in 1..Len(r_log[i].calls) :
       r_log[i].calls[j].seen = r_log[i].new

\* ------------------------------------------------------------------ C37
\* C37: the updates of a subscriber set are atomic under concurrency: while
\* several threads subscribe callbacks, unsubscribe others and run effects
\* that read the Ref, every subscribe, unsubscribe and read that completes
\* applies exactly its own change to the set as it is at that moment, made by
\* the thread that holds the lock, and nothing else changes a set; and every
\* run of an effect that reads the Ref gets to that registration.  So no
\* registration or removal is lost, and the final set is the initial one
\* plus what was added minus what was removed.
UpdateBy(t, r) ==
    /\ l_stack[t] # <<>>
    /\ LTop(t).kind # "notify" /\ LTop(t).r = r
    /\ Len(l_stack'[t]) < Len(l_stack[t])
EffectRunBy(t) ==
    /\ Calling(t) /\ "reads" \in LTop(t).todo
    /\ Len(l_stack'[t]) >= Len(l_stack[t])
    /\ "reads" \notin l_stack'[t][Len(l_stack[t])].todo

C37_NoUpdateLost ==
    [][/\ \A r \in Refs :
            (l_subs'[r] # l_subs[r] \/ \E t \in LockThreads : UpdateBy(t, r)) =>
               \E t \in LockThreads :
                  /\ UpdateBy(t, r)
                  /\ l_lock[r] = t /\ l_lock'[r] = None
                  /\ l_subs'[r] = IF LTop(t).kind = "unsubscribe"
                                  THEN l_subs[r] \ {LTop(t).cb}
                                  ELSE l_subs[r] \cup {LTop(t).cb}
       /\ \A t \in LockThreads :
            EffectRunBy(t) => /\ Len(l_stack'[t]) = Len(l_stack[t]) + 1
                              /\ Last(l_stack'[t]).kind = "read"
                              /\ Last(l_stack'[t]).cb = "reads"]_vars

\* ------------------------------------------------------------------ C38
\* C38: an ActionExecutor refers to its view's action table itself, not to a
\* copy: when the table's entry for a name has changed since the executor
\* was obtained, a call of that name through the executor invokes the
\* function the table holds now; an action registered after the executor
\* was obtained is invocable through it.
C38_ExecutorTableIsLive ==
    (act.op = "call" /\ exec_seen[act.name] # allowed_actions[act.view][act.name]) =>
        LET fn == allowed_actions[act.view][act.name]
        IN /\ act.view = executor
           /\ act.func = fn
           /\ act.invoked = << <<fn, act.args>> >>
           /\ act.raised = Apply(fn, act.args).exc

C38_Witness ==
    /\ act.op = "call" /\ act.name = "f" /\ exec_seen["f"] = None
    /\ act.invoked = << <<"f", act.args>> >> /\ act.raised = "none"
    /\ act.result.by = "f"

\* ------------------------------------------------------------------ C39
\* C39: a lookup through a ReadOnlyView reads the value of the key's
\* container, so a lookup made while an effect is active registers that
\* effect on the container, though the effect never reads the value of what
\* the lookup returned; the effect is a subscriber of the container
\* afterwards, and it is called when the key changes.
C39_LookupRegistersEffect ==
    [][/\ (last'.op = "view_effect" /\ last'.ref # 0) =>
            /\ last'.raised = "none"
            /\ rd_subs'[last'.ref] = rd_subs[last'.ref] \cup {last'.target}
       /\ (last'.op = "rd_set" /\ last'.changed) =>
            \A e \in Effects \cap rd_subs[last'.ref] :
               last'.calls[e] = << <<last'.new, last'.old>> >>]_vars

\* ------------------------------------------------------------------ C40
\* C40: leaf proxies are not cached: every read of a leaf key through a
\* ReadOnlyView builds a new ReadOnlyRef, which registers one more relay on
\* the key's container, so each read makes the container's subscriber set
\* grow by one, n reads by n; and no operation removes a relay.
LeafRead ==
    /\ last'.op \in {"view_getattr", "view_getitem"}
    /\ last'.ref # 0
    /\ rd_value[last'.ref].kind = "leaf"

C40_EveryLeafReadAddsRelay ==
    [][/\ LeafRead =>
            /\ rd_out' = ReadOnlyRefResult(last'.ref)
            /\ Cardinality(rd_subs'[last'.ref]) + relays'[last'.ref] =
                 SubscriberCount(last'.ref) + 1
       /\ \A c \in 1..MaxHeap : relays'[c] >= relays[c]]_vars

====
